---- MODULE Spec2Model ----
(***************************************************************************)
(* State-machine model of the PDT configuration builder:                   *)
(*   ConfigManager        (groups <-> flat config, mutators, persistence)  *)
(*   ValidationManager    (duplicate groups, overlapping rules)            *)
(*   ExportImportManager  (file import: gate, normalise, diff, summary,    *)
(*                         finalize)                                       *)
(*   PDTConfigBuilder     (UI handlers that tie the three together)        *)
(*                                                                         *)
(* JavaScript values are encoded as tagged tuples so that values of        *)
(* different JS types can be compared (=== / !==) without type errors:     *)
(*   undefined  <<"undefined">>      null   <<"null">>                     *)
(*   number n   <<"num", n>>         string <<"str", s>>                   *)
(*   boolean b  <<"bool", b>>        array  <<"arr", seq>>                 *)
(* A JS object is a function whose domain is its set of own keys; a key    *)
(* that is missing from the domain reads as undefined.  A title is a       *)
(* sequence of text tokens (the empty sequence is the empty string), so    *)
(* that 'Copy of ' + title and startsWith('Copy of') can be computed.      *)
(***************************************************************************)
EXTENDS Integers, Sequences, FiniteSets, TLC

\* ------------------------------------------------------------------ bounds
MaxGroups == 2
MaxRules == 1
MaxId == 2
MaxPending == 2
MaxWriteFailures == 1
MaxBound == 2
MaxDelay == 1
MaxParams == 2
MaxFormats == 2
MaxCappingRules == 3
MaxEditedRules == 2
MaxSections == 3

\* --------------------------------------------------------------- JS values
Undefined == <<"undefined">>
Null == <<"null">>
Num(n) == <<"num", n>>
Str(s) == <<"str", s>>
Bool(b) == <<"bool", b>>
Arr(a) == <<"arr", a>>

EmptyObj == <<>>

\* null where an object was expected; a record, so that it can be compared with objects
NullMapping == [null |-> TRUE]

\* o[k] of a JS object
Get(o, k) == IF k \in DOMAIN o THEN o[k] ELSE Undefined

\* o[k] = v (assignment adds the key when missing)
Put(o, k, v) == [x \in (DOMAIN o) \cup {k} |-> IF x = k THEN v ELSE o[x]]

\* JS truthiness of a primitive or array
Truthy(v) ==
  CASE v[1] = "str" -> v[2] # ""
    [] v[1] = "num" -> v[2] # 0
    [] v[1] = "bool" -> v[2]
    [] v[1] = "arr" -> TRUE
    [] OTHER -> FALSE

\* a || b
OrElse(a, b) == IF Truthy(a) THEN a ELSE b

\* v !== null && v !== undefined
IsSet(v) == v[1] # "null" /\ v[1] # "undefined"

\* decimal strings of the integers a number input can hold in the model
IntDomain == 0 .. 30

\* parseInt(v) for a numeric string or a number
ParseInt(v) ==
  CASE v[1] = "num" -> v
    [] v[1] = "str" /\ (\E n \in IntDomain : ToString(n) = v[2]) ->
         Num(CHOOSE n \in IntDomain : ToString(n) = v[2])
    [] OTHER -> <<"NaN">>

\* String(v) / v.toString() for the primitives that occur
ToStr(v) ==
  CASE v[1] = "str" -> v[2]
    [] v[1] = "num" -> ToString(v[2])
    [] v[1] = "bool" -> (IF v[2] THEN "true" ELSE "false")
    [] OTHER -> v[1]

RECURSIVE ConcatAll(_)
ConcatAll(ss) == IF ss = <<>> THEN <<>> ELSE Head(ss) \o ConcatAll(Tail(ss))

\* Array.prototype.filter(...).map(index) : the indices whose element passes
RECURSIVE IndicesWhere(_, _, _)
IndicesWhere(s, Test(_), i) ==
  IF i > Len(s) THEN <<>>
  ELSE (IF Test(s[i]) THEN <<i>> ELSE <<>>) \o IndicesWhere(s, Test, i + 1)

Filter(s, Test(_)) == LET ix == IndicesWhere(s, Test, 1) IN [k \in 1 .. Len(ix) |-> s[ix[k]]]

\* ---------------------------------------------------------- ConfigManager
SectionTypes == {"display-format", "ranges", "capping", "rounding"}

DefaultConfig ==
  [configFormatVersion |-> Str("1"), variant |-> Str("config-a"),
   platform |-> Str("talabat"), countryCode |-> Str("bh"), pdt |-> <<>>]

sectionTypeToDisplayName(sectionType) ==
  CASE sectionType = "display-format" -> "Display Format"
    [] sectionType = "ranges" -> "Range"
    [] sectionType = "capping" -> "Capping"
    [] sectionType = "rounding" -> "Rounding"
    [] OTHER -> sectionType

DefaultRangesRule ==
  [lowerBound |-> Num(-10), upperBound |-> Num(5),
   pdtGreaterThan |-> Null, pdtLessThanOrEqualTo |-> Null,
   meanDelayGreaterThan |-> Null, meanDelayLessThanOrEqualTo |-> Null]

DefaultSingleRule == [type |-> Str("single"), min |-> Num(5), max |-> Num(180)]

DefaultCappingRangesRule ==
  [type |-> Str("ranges"), minLowerBound |-> Num(10), minUpperBound |-> Num(20),
   maxLowerBound |-> Num(160), maxUpperBound |-> Num(180)]

DefaultDisplayRule == [format |-> Str("DISPLAY_FORMAT_MINUTE_RANGE"), conditions |-> EmptyObj]

createDefaultRules(sectionType) ==
  CASE sectionType = "display-format" -> <<DefaultDisplayRule>>
    [] sectionType = "ranges" -> <<DefaultRangesRule>>
    [] sectionType = "capping" -> <<DefaultSingleRule>>
    [] OTHER -> <<>>

\* one optional condition key
Cond(present, key, value) == IF present THEN key :> value ELSE EmptyObj

\* the conditions shared by display-format, ranges and capping entries
CommonConditions(cp) ==
     Cond(Truthy(Get(cp, "deliveryMode")), "delivery_mode", Get(cp, "deliveryMode"))
  @@ Cond(Get(cp, "marketplace") # Undefined /\ Get(cp, "marketplace") # Str(""),
          "marketplace", Bool(Get(cp, "marketplace") = Str("true")))
  @@ Cond(Truthy(Get(cp, "verticalType")) /\ Get(cp, "verticalType") # Str(""),
          "vertical_types", Arr(<<Get(cp, "verticalType")>>))

WithConditions(entry, conditions) ==
  IF conditions = EmptyObj THEN entry ELSE entry @@ ("conditions" :> conditions)

DisplayFormatEntry(group, rule) ==
  LET cp == group.commonParams
      conditions ==
           CommonConditions(cp)
        @@ Cond(Truthy(Get(cp, "pdtLessThanOrEqualTo")), "pdt_less_than_or_equal_to",
                ParseInt(Get(cp, "pdtLessThanOrEqualTo")))
  IN  WithConditions([format |-> Get(rule, "format"), _title |-> group.title], conditions)

RangesEntry(group, rule) ==
  LET cp == group.commonParams
      conditions ==
           Cond(IsSet(Get(rule, "pdtGreaterThan")), "pdt_greater_than", Get(rule, "pdtGreaterThan"))
        @@ Cond(IsSet(Get(rule, "pdtLessThanOrEqualTo")), "pdt_less_than_or_equal_to",
                Get(rule, "pdtLessThanOrEqualTo"))
        @@ Cond(IsSet(Get(rule, "meanDelayGreaterThan")), "mean_delay_greater_than",
                Get(rule, "meanDelayGreaterThan"))
        @@ Cond(IsSet(Get(rule, "meanDelayLessThanOrEqualTo")), "mean_delay_less_than_or_equal_to",
                Get(rule, "meanDelayLessThanOrEqualTo"))
        @@ CommonConditions(cp)
  IN  [delivery_option |-> OrElse(Get(cp, "deliveryOption"), Str("STANDARD")),
       lower_bound |-> Get(rule, "lowerBound"),
       upper_bound |-> Get(rule, "upperBound"),
       _title |-> group.title,
       conditions |-> conditions]

IsSingleRule(rule) == Get(rule, "type") = Str("single")
IsRangesRule(rule) == Get(rule, "type") = Str("ranges")

CappingEntry(group) ==
  LET cp == group.commonParams
      conditions ==
           CommonConditions(cp)
        @@ Cond(Truthy(Get(cp, "pdtGreaterThan")), "pdt_greater_than", ParseInt(Get(cp, "pdtGreaterThan")))
        @@ Cond(Truthy(Get(cp, "pdtLessThanOrEqualTo")), "pdt_less_than_or_equal_to",
                ParseInt(Get(cp, "pdtLessThanOrEqualTo")))
        @@ Cond(Truthy(Get(cp, "meanDelayGreaterThan")), "mean_delay_greater_than",
                ParseInt(Get(cp, "meanDelayGreaterThan")))
        @@ Cond(Truthy(Get(cp, "meanDelayLessThanOrEqualTo")), "mean_delay_less_than_or_equal_to",
                ParseInt(Get(cp, "meanDelayLessThanOrEqualTo")))
      singleRules == Filter(group.rules, IsSingleRule)
      rangesRules == Filter(group.rules, IsRangesRule)
      base == WithConditions([delivery_option |-> OrElse(Get(cp, "deliveryOption"), Str("STANDARD")),
                              _title |-> group.title], conditions)
      single == IF Len(singleRules) > 0
                THEN "single" :> [min |-> Get(singleRules[1], "min"), max |-> Get(singleRules[1], "max")]
                ELSE EmptyObj
      ranges == IF Len(rangesRules) > 0
                THEN "ranges" :>
                       [min |-> [lower_bound |-> Get(rangesRules[1], "minLowerBound"),
                                 upper_bound |-> Get(rangesRules[1], "minUpperBound")],
                        max |-> [lower_bound |-> Get(rangesRules[1], "maxLowerBound"),
                                 upper_bound |-> Get(rangesRules[1], "maxUpperBound")]]
                ELSE EmptyObj
  IN  base @@ single @@ ranges

RoundingEntry(group) ==
  [strategy |-> OrElse(Get(group.commonParams, "strategy"), Str("NEAREST_5")), _title |-> group.title]

GroupsOfType(gs, t) == LET IsT(g) == g.type = t IN Filter(gs, IsT)

\* the pdt list that updateConfigFromGroups writes into config.pdt
toConfig(gs) ==
  LET df == GroupsOfType(gs, "display-format")
      rg == GroupsOfType(gs, "ranges")
      cp == GroupsOfType(gs, "capping")
      rd == GroupsOfType(gs, "rounding")
      dfEntries == ConcatAll([i \in 1 .. Len(df) |->
                      [j \in 1 .. Len(df[i].rules) |-> DisplayFormatEntry(df[i], df[i].rules[j])]])
      rgEntries == ConcatAll([i \in 1 .. Len(rg) |->
                      [j \in 1 .. Len(rg[i].rules) |-> RangesEntry(rg[i], rg[i].rules[j])]])
  IN     (IF Len(df) > 0 THEN <<[display_format |-> dfEntries]>> ELSE <<>>)
      \o (IF Len(rg) > 0 THEN <<[ranges |-> rgEntries]>> ELSE <<>>)
      \o (IF Len(cp) > 0 THEN <<[capping |-> [i \in 1 .. Len(cp) |-> CappingEntry(cp[i])]]>> ELSE <<>>)
      \o (IF Len(rd) > 0 THEN <<[rounding |-> [i \in 1 .. Len(rd) |-> RoundingEntry(rd[i])]]>> ELSE <<>>)

\* String.prototype.toUpperCase on the enum spellings that occur
Upper(s) ==
  CASE s = "standard" -> "STANDARD"
    [] s = "priority" -> "PRIORITY"
    [] s = "delivery" -> "DELIVERY"
    [] s = "pickup" -> "PICKUP"
    [] OTHER -> s

RECURSIVE JoinWith(_, _)
JoinWith(parts, sep) ==
  IF parts = <<>> THEN ""
  ELSE IF Len(parts) = 1 THEN parts[1]
  ELSE parts[1] \o sep \o JoinWith(Tail(parts), sep)

\* entry.conditions?.  : the conditions object, or an object without keys
CondOf(entry) == IF "conditions" \in DOMAIN entry THEN entry.conditions ELSE EmptyObj

\* vertical_types.join(',') is called on a non-empty value: a TypeError unless it is an array
VerticalTypesThrows(conditions) ==
  LET vt == Get(conditions, "vertical_types")
  IN  vt[1] = "str" /\ vt[2] # ""

HasAnyConditions(entry) == "conditions" \in DOMAIN entry /\ DOMAIN entry.conditions # {}

HasOnlyDeliveryOption(entry) ==
  ~HasAnyConditions(entry) /\ Truthy(Get(entry, "delivery_option")) /\ "conditions" \notin DOMAIN entry

\* ParamKeyPart with the marketplace condition tested for truthiness, not for presence
ParamKeyPartTruthy(conditions, key) ==
  LET v == Get(conditions, key)
  IN  IF key = "delivery_mode" /\ Truthy(v)
        THEN <<"delivery_mode:" \o Upper(ToStr(v))>>
      ELSE IF key = "marketplace" /\ Truthy(v)
        THEN <<"marketplace:" \o (IF v = Bool(TRUE) \/ v = Str("true") THEN "true" ELSE "false")>>
      ELSE IF key = "vertical_types"
        THEN <<"vertical_types:" \o
                (IF v[1] = "arr" /\ Len(v[2]) > 0
                 THEN JoinWith([i \in 1 .. Len(v[2]) |-> ToStr(v[2][i])], ",")
                 ELSE "ANY")>>
      ELSE IF key = "pdt_less_than_or_equal_to" /\ v # Undefined
        THEN <<"pdt_less_than_or_equal_to:" \o ToStr(v)>>
      ELSE <<>>

\* the key part that one paramKey contributes (case 3 of groupByCommonParams)
ParamKeyPart(conditions, key) ==
  LET v == Get(conditions, key)
  IN  IF key = "delivery_mode" /\ Truthy(v)
        THEN <<"delivery_mode:" \o Upper(ToStr(v))>>
      ELSE IF key = "marketplace" /\ v # Undefined
        THEN <<"marketplace:" \o (IF v = Bool(TRUE) \/ v = Str("true") THEN "true" ELSE "false")>>
      ELSE IF key = "vertical_types"
        THEN <<"vertical_types:" \o
                (IF v[1] = "arr" /\ Len(v[2]) > 0
                 THEN JoinWith([i \in 1 .. Len(v[2]) |-> ToStr(v[2][i])], ",")
                 ELSE "ANY")>>
      ELSE IF key = "pdt_less_than_or_equal_to" /\ v # Undefined
        THEN <<"pdt_less_than_or_equal_to:" \o ToStr(v)>>
      ELSE <<>>

\* keyParts of one entry
GroupingKeyParts(entry, paramKeys) ==
  IF ~HasAnyConditions(entry) /\ ~HasOnlyDeliveryOption(entry)
    THEN <<"conditions:none">>
  ELSE IF HasOnlyDeliveryOption(entry)
    THEN <<"delivery_option:" \o Upper(ToStr(entry.delivery_option)), "conditions:delivery_option_only">>
  ELSE (IF Truthy(Get(entry, "delivery_option"))
        THEN <<"delivery_option:" \o Upper(ToStr(entry.delivery_option))>> ELSE <<>>)
       \o ConcatAll([i \in 1 .. Len(paramKeys) |-> ParamKeyPart(entry.conditions, paramKeys[i])])

\* keyParts.join('|') || 'default'
GroupingKey(entry, paramKeys) ==
  LET k == JoinWith(GroupingKeyParts(entry, paramKeys), "|") IN IF k = "" THEN "default" ELSE k

\* the entry makes groupByCommonParams throw
GroupingThrows(entry, paramKeys) ==
  /\ HasAnyConditions(entry)
  /\ \E i \in 1 .. Len(paramKeys) : paramKeys[i] = "vertical_types"
  /\ VerticalTypesThrows(entry.conditions)

\* buckets of an insertion-ordered object keyed by strings: first-seen key order
RECURSIVE FirstSeen(_, _)
FirstSeen(keys, seen) ==
  IF keys = <<>> THEN <<>>
  ELSE IF Head(keys) \in seen THEN FirstSeen(Tail(keys), seen)
  ELSE <<Head(keys)>> \o FirstSeen(Tail(keys), seen \cup {Head(keys)})

Buckets(entries, keys) ==
  LET order == FirstSeen(keys, {})
  IN  [b \in 1 .. Len(order) |->
         LET ix == LET Same(i) == keys[i] = order[b] IN IndicesWhere([i \in 1 .. Len(keys) |-> i], Same, 1)
         IN  [key |-> order[b], entries |-> [k \in 1 .. Len(ix) |-> entries[ix[k]]]]]

\* commonParamsKey.includes('conditions:delivery_option_only'), read off the key parts
KeyHasDeliveryOptionOnly(entry, paramKeys) ==
  LET parts == GroupingKeyParts(entry, paramKeys)
  IN  \E i \in 1 .. Len(parts) : parts[i] = "conditions:delivery_option_only"

\* groupByCommonParams: the buckets in key insertion order (only called when no entry throws)
groupByCommonParams(entries, paramKeys) ==
  LET keys == [i \in 1 .. Len(entries) |-> GroupingKey(entries[i], paramKeys)]
      bs == Buckets(entries, keys)
  IN  [b \in 1 .. Len(bs) |->
         [key |-> bs[b].key,
          hasNoConditions |-> bs[b].key = "conditions:none",
          hasOnlyDeliveryOption |-> KeyHasDeliveryOptionOnly(bs[b].entries[1], paramKeys),
          entries |-> bs[b].entries]]

DisplayFormatParamKeys == <<"delivery_mode", "marketplace", "pdt_less_than_or_equal_to", "vertical_types">>
RangesParamKeys == <<"delivery_option", "delivery_mode", "marketplace", "vertical_types">>

\* numeric value of a bound in the sort comparator: null coerces to 0
NumOf(v) == IF v[1] = "num" THEN v[2] ELSE 0

\* c !== undefined ? c : -Infinity  /  +Infinity  (the infinities lie outside IntDomain)
LowerExt(v) == IF v # Undefined THEN NumOf(v) ELSE -1000000
UpperExt(v) == IF v # Undefined THEN NumOf(v) ELSE 1000000

\* the comparator of sortRangeEntries: negative, zero or positive
RangeCompare(a, b) ==
  LET ca == CondOf(a)
      cb == CondOf(b)
      aPdtLower == LowerExt(Get(ca, "pdt_greater_than"))
      aPdtUpper == UpperExt(Get(ca, "pdt_less_than_or_equal_to"))
      bPdtLower == LowerExt(Get(cb, "pdt_greater_than"))
      bPdtUpper == UpperExt(Get(cb, "pdt_less_than_or_equal_to"))
      aMdLower == LowerExt(Get(ca, "mean_delay_greater_than"))
      aMdUpper == UpperExt(Get(ca, "mean_delay_less_than_or_equal_to"))
      bMdLower == LowerExt(Get(cb, "mean_delay_greater_than"))
      bMdUpper == UpperExt(Get(cb, "mean_delay_less_than_or_equal_to"))
  IN  IF aPdtLower # bPdtLower THEN aPdtLower - bPdtLower
      ELSE IF aPdtUpper # bPdtUpper THEN aPdtUpper - bPdtUpper
      ELSE IF aMdLower # bMdLower THEN aMdLower - bMdLower
      ELSE IF aMdUpper # bMdUpper THEN aMdUpper - bMdUpper
      ELSE IF Get(a, "lower_bound") # Get(b, "lower_bound")
        THEN NumOf(Get(a, "lower_bound")) - NumOf(Get(b, "lower_bound"))
      ELSE NumOf(Get(a, "upper_bound")) - NumOf(Get(b, "upper_bound"))

\* stable insertion of x into an already sorted sequence
RECURSIVE InsertSorted(_, _)
InsertSorted(x, sorted) ==
  IF sorted = <<>> THEN <<x>>
  ELSE IF RangeCompare(Head(sorted), x) <= 0 THEN <<Head(sorted)>> \o InsertSorted(x, Tail(sorted))
  ELSE <<x>> \o sorted

\* Array.prototype.sort with the comparator above (the sort is stable)
RECURSIVE sortRangeEntries(_)
sortRangeEntries(entries) ==
  IF entries = <<>> THEN <<>>
  ELSE InsertSorted(entries[Len(entries)], sortRangeEntries(SubSeq(entries, 1, Len(entries) - 1)))


\* `${type}-${n}`
GroupId(type, n) == type \o "-" \o ToString(n)

\* a group object; ref names the commonParams and rules objects it holds:
\* 0 when they belong to this group alone, k when they are those of template k
Group(id, type, title, commonParams, rules, ref) ==
  [id |-> id, type |-> type, title |-> title, commonParams |-> commonParams, rules |-> rules, ref |-> ref]

TitleOf(entry) == IF "_title" \in DOMAIN entry THEN entry._title ELSE <<>>

getSectionType(section) ==
  IF "display_format" \in DOMAIN section THEN "display-format"
  ELSE IF "ranges" \in DOMAIN section THEN "ranges"
  ELSE IF "capping" \in DOMAIN section THEN "capping"
  ELSE IF "rounding" \in DOMAIN section THEN "rounding"
  ELSE "unknown"

\* conditions?.marketplace?.toString() || 'false'
MarketplaceString(c) ==
  LET m == Get(c, "marketplace") IN IF IsSet(m) THEN OrElse(Str(ToStr(m)), Str("false")) ELSE Str("false")

\* conditions?.vertical_types?.[0]
FirstVerticalType(c) ==
  LET vt == Get(c, "vertical_types") IN IF vt[1] = "arr" /\ Len(vt[2]) > 0 THEN vt[2][1] ELSE Undefined

DisplayFormatGroup(b, n) ==
  LET first == b.entries[1]
      c == CondOf(first)
      none == b.hasNoConditions \/ b.hasOnlyDeliveryOption
      derived == IF none THEN <<"Display Format (Any)">>
                 ELSE <<"Display Format">> \o
                      (IF Truthy(Get(c, "delivery_mode")) THEN <<" ", ToStr(Get(c, "delivery_mode"))>> ELSE <<>>)
      title == IF TitleOf(first) # <<>> THEN TitleOf(first) ELSE derived
      commonParams ==
        [deliveryMode |-> IF none THEN Str("") ELSE OrElse(Get(c, "delivery_mode"), Str("")),
         marketplace |-> IF none THEN Str("") ELSE MarketplaceString(c),
         pdtLessThanOrEqualTo |-> IF none THEN Str("") ELSE OrElse(Get(c, "pdt_less_than_or_equal_to"), Str("")),
         verticalType |-> IF none THEN Str("") ELSE OrElse(FirstVerticalType(c), Str(""))]
      rules == [i \in 1 .. Len(b.entries) |->
                  [format |-> Get(b.entries[i], "format"), conditions |-> CondOf(b.entries[i])]]
  IN  Group(GroupId("display-format", n), "display-format", title, commonParams, rules, 0)

RangesRuleOf(entry) ==
  LET c == CondOf(entry)
  IN  [lowerBound |-> Get(entry, "lower_bound"),
       upperBound |-> Get(entry, "upper_bound"),
       pdtGreaterThan |-> OrElse(Get(c, "pdt_greater_than"), Null),
       pdtLessThanOrEqualTo |-> OrElse(Get(c, "pdt_less_than_or_equal_to"), Null),
       meanDelayGreaterThan |-> OrElse(Get(c, "mean_delay_greater_than"), Null),
       meanDelayLessThanOrEqualTo |-> OrElse(Get(c, "mean_delay_less_than_or_equal_to"), Null)]

RangesGroup(b, n) ==
  LET first == b.entries[1]
      c == CondOf(first)
      none == b.hasNoConditions \/ b.hasOnlyDeliveryOption
      verticalType == IF ~none /\ FirstVerticalType(c) # Undefined THEN FirstVerticalType(c) ELSE Str("")
      title == IF none THEN <<"Ranges Default">>
               ELSE IF TitleOf(first) # <<>> THEN TitleOf(first)
               ELSE <<"Ranges">> \o
                    (IF Get(c, "pdt_less_than_or_equal_to") # Undefined
                       THEN <<" PDT <=", ToStr(Get(c, "pdt_less_than_or_equal_to"))>>
                     ELSE IF Get(c, "pdt_greater_than") # Undefined
                       THEN <<" PDT >", ToStr(Get(c, "pdt_greater_than"))>>
                     ELSE <<>>)
      commonParams ==
        [deliveryOption |-> OrElse(Get(first, "delivery_option"), Str("STANDARD")),
         deliveryMode |-> IF none THEN Str("") ELSE OrElse(Get(c, "delivery_mode"), Str("DELIVERY")),
         marketplace |-> IF none THEN Str("") ELSE MarketplaceString(c),
         verticalType |-> verticalType]
      sortedEntries == sortRangeEntries(b.entries)
  IN  Group(GroupId("ranges", n), "ranges", title, commonParams,
            [i \in 1 .. Len(sortedEntries) |-> RangesRuleOf(sortedEntries[i])], 0)

CappingRulesOf(entry) ==
     (IF "single" \in DOMAIN entry
      THEN <<[type |-> Str("single"), min |-> Get(entry.single, "min"), max |-> Get(entry.single, "max")]>>
      ELSE <<>>)
  \o (IF "ranges" \in DOMAIN entry
      THEN <<[type |-> Str("ranges"),
              minLowerBound |-> Get(entry.ranges.min, "lower_bound"),
              minUpperBound |-> Get(entry.ranges.min, "upper_bound"),
              maxLowerBound |-> Get(entry.ranges.max, "lower_bound"),
              maxUpperBound |-> Get(entry.ranges.max, "upper_bound")]>>
      ELSE <<>>)

CappingGroup(b, n) ==
  LET first == b.entries[1]
      c == CondOf(first)
      none == b.hasNoConditions \/ b.hasOnlyDeliveryOption
      title == IF none THEN <<"Capping Default">>
               ELSE IF TitleOf(first) # <<>> THEN TitleOf(first)
               ELSE <<"Capping ", ToStr(OrElse(Get(first, "delivery_option"), Str("")))>>
      P(k) == IF none THEN Str("") ELSE OrElse(Get(c, k), Str(""))
      commonParams ==
        [deliveryOption |-> OrElse(Get(first, "delivery_option"), Str("STANDARD")),
         deliveryMode |-> P("delivery_mode"),
         marketplace |-> IF none THEN Str("") ELSE MarketplaceString(c),
         pdtGreaterThan |-> P("pdt_greater_than"),
         pdtLessThanOrEqualTo |-> P("pdt_less_than_or_equal_to"),
         meanDelayGreaterThan |-> P("mean_delay_greater_than"),
         meanDelayLessThanOrEqualTo |-> P("mean_delay_less_than_or_equal_to"),
         verticalType |-> IF none THEN Str("") ELSE OrElse(FirstVerticalType(c), Str(""))]
  IN  Group(GroupId("capping", n), "capping", title, commonParams,
            ConcatAll([i \in 1 .. Len(b.entries) |-> CappingRulesOf(b.entries[i])]), 0)

RoundingGroup(entry, index, n) ==
  Group(GroupId("rounding", n), "rounding",
        IF TitleOf(entry) # <<>> THEN TitleOf(entry) ELSE <<"Rounding ", ToString(index)>>,
        [strategy |-> OrElse(Get(entry, "strategy"), Str("NEAREST_5"))], <<>>, 0)

AnyGroupingThrows(entries, paramKeys) == \E i \in 1 .. Len(entries) : GroupingThrows(entries[i], paramKeys)

\* one iteration of the forEach over config.pdt; acc = [threw, groups, idCounter]
RebuildSection(section, acc) ==
  LET t == getSectionType(section)
      n0 == acc.idCounter
  IN  IF t = "display-format" THEN
        IF AnyGroupingThrows(section.display_format, DisplayFormatParamKeys) THEN [acc EXCEPT !.threw = TRUE]
        ELSE LET bs == groupByCommonParams(section.display_format, DisplayFormatParamKeys)
             IN  [acc EXCEPT !.groups = @ \o [b \in 1 .. Len(bs) |-> DisplayFormatGroup(bs[b], n0 + b - 1)],
                             !.idCounter = n0 + Len(bs)]
      ELSE IF t = "ranges" THEN
        IF AnyGroupingThrows(section.ranges, RangesParamKeys) THEN [acc EXCEPT !.threw = TRUE]
        ELSE LET bs == groupByCommonParams(section.ranges, RangesParamKeys)
             IN  [acc EXCEPT !.groups = @ \o [b \in 1 .. Len(bs) |-> RangesGroup(bs[b], n0 + b - 1)],
                             !.idCounter = n0 + Len(bs)]
      ELSE IF t = "capping" THEN
        IF AnyGroupingThrows(section.capping, RangesParamKeys) THEN [acc EXCEPT !.threw = TRUE]
        ELSE LET bs == groupByCommonParams(section.capping, RangesParamKeys)
             IN  [acc EXCEPT !.groups = @ \o [b \in 1 .. Len(bs) |-> CappingGroup(bs[b], n0 + b - 1)],
                             !.idCounter = n0 + Len(bs)]
      ELSE IF t = "rounding" THEN
        [acc EXCEPT !.groups = @ \o [i \in 1 .. Len(section.rounding) |->
                                       RoundingGroup(section.rounding[i], i, n0 + i - 1)],
                    !.idCounter = n0 + Len(section.rounding)]
      ELSE acc

RECURSIVE RebuildFrom(_, _)
RebuildFrom(sections, acc) ==
  IF sections = <<>> \/ acc.threw THEN acc
  ELSE RebuildFrom(Tail(sections), RebuildSection(Head(sections), acc))

\* rebuildGroupsMapping: groups and idCounter are cleared first, then the sections are
\* processed in order; threw tells that an exception ended the loop early
rebuildGroupsMapping(pdt) == RebuildFrom(pdt, [threw |-> FALSE, groups |-> <<>>, idCounter |-> 0])


\* ------------------------------------------------------ ValidationManager
NoIssues == [duplicateGroups |-> <<>>, overlappingRules |-> <<>>, requiredFields |-> <<>>]

\* the index pairs (i, j), i < j, in the order of the nested for loops
PairsBelow(n) == ConcatAll([i \in 1 .. n |-> [k \in 1 .. (n - i) |-> <<i, i + k>>]])

\* areGroupsEqual without the comparison of the numbers of keys
areGroupsEqualAnyCount(group1, group2) ==
  LET params1 == group1.commonParams
      params2 == group2.commonParams
  IN  \A key \in DOMAIN params1 : params1[key] = Get(params2, key)

areGroupsEqual(group1, group2) ==
  LET params1 == group1.commonParams
      params2 == group2.commonParams
  IN  /\ Cardinality(DOMAIN params1) = Cardinality(DOMAIN params2)
      /\ \A key \in DOMAIN params1 : params1[key] = Get(params2, key)

\* the duplicateGroups issues of one section type
DuplicatesOfType(typeGroups, type) ==
  LET pairs == PairsBelow(Len(typeGroups))
      Dup(p) == areGroupsEqual(typeGroups[p[1]], typeGroups[p[2]])
      hits == Filter(pairs, Dup)
  IN  IF Len(typeGroups) <= 1 THEN <<>>
      ELSE [k \in 1 .. Len(hits) |->
              [group1 |-> typeGroups[hits[k][1]].id,
               group2 |-> typeGroups[hits[k][2]].id,
               type |-> type,
               message |-> <<typeGroups[hits[k][1]].title, typeGroups[hits[k][2]].title>>]]

checkDuplicateGroups(gs) ==
  LET types == FirstSeen([i \in 1 .. Len(gs) |-> gs[i].type], {})
  IN  ConcatAll([t \in 1 .. Len(types) |-> DuplicatesOfType(GroupsOfType(gs, types[t]), types[t])])

haveMatchingParameters(params1, params2) ==
  \A key \in {"deliveryMode", "marketplace", "pdtLessThanOrEqualTo", "verticalType"} :
    LET param1Exists == Get(params1, key) # Undefined /\ Get(params1, key) # Str("")
        param2Exists == Get(params2, key) # Undefined /\ Get(params2, key) # Str("")
    IN  /\ param1Exists = param2Exists
        /\ ~(param1Exists /\ param2Exists /\ params1[key] # params2[key])

\* the requiredFields issues of checkDuplicateDisplayFormats
TooManyFormats(gs) ==
  LET df == GroupsOfType(gs, "display-format")
      Many(g) == Len(g.rules) > 1
      hits == Filter(df, Many)
  IN  IF Len(df) < 2 THEN <<>>
      ELSE [k \in 1 .. Len(hits) |-> [groupId |-> hits[k].id, message |-> hits[k].title]]

\* the duplicateGroups issues of checkDuplicateDisplayFormats
checkDuplicateDisplayFormats(gs) ==
  LET df == GroupsOfType(gs, "display-format")
      Dup(p) ==
        /\ haveMatchingParameters(df[p[1]].commonParams, df[p[2]].commonParams)
        /\ \E i \in 1 .. Len(df[p[1]].rules) : \E j \in 1 .. Len(df[p[2]].rules) :
             Get(df[p[1]].rules[i], "format") = Get(df[p[2]].rules[j], "format")
      hits == Filter(PairsBelow(Len(df)), Dup)
  IN  IF Len(df) < 2 THEN <<>>
      ELSE [k \in 1 .. Len(hits) |->
              [group1 |-> df[hits[k][1]].id, group2 |-> df[hits[k][2]].id, type |-> "display-format",
               message |-> <<df[hits[k][1]].title, df[hits[k][2]].title>>]]

\* doRangesRulesOverlap without the two tests of the exact PDT boundary
doRangesRulesOverlapClosed(rule1, rule2) ==
  LET g1 == Get(rule1, "pdtGreaterThan")
      l1 == Get(rule1, "pdtLessThanOrEqualTo")
      g2 == Get(rule2, "pdtGreaterThan")
      l2 == Get(rule2, "pdtLessThanOrEqualTo")
      mg1 == Get(rule1, "meanDelayGreaterThan")
      ml1 == Get(rule1, "meanDelayLessThanOrEqualTo")
      mg2 == Get(rule2, "meanDelayGreaterThan")
      ml2 == Get(rule2, "meanDelayLessThanOrEqualTo")
      From(v) == IF IsSet(v) THEN NumOf(v) ELSE -1000000
      To(v) == IF IsSet(v) THEN NumOf(v) ELSE 1000000
  IN  IF To(l1) < From(g2) \/ From(g1) > To(l2) THEN FALSE
      ELSE IF (~IsSet(mg1) /\ ~IsSet(ml1)) \/ (~IsSet(mg2) /\ ~IsSet(ml2)) THEN TRUE
      ELSE IF IsSet(ml1) /\ IsSet(mg2) /\ ml1 = mg2 THEN FALSE
      ELSE IF IsSet(ml2) /\ IsSet(mg1) /\ ml2 = mg1 THEN FALSE
      ELSE IF To(ml1) < From(mg2) \/ From(mg1) > To(ml2) THEN FALSE
      ELSE TRUE

doRangesRulesOverlap(rule1, rule2) ==
  LET g1 == Get(rule1, "pdtGreaterThan")
      l1 == Get(rule1, "pdtLessThanOrEqualTo")
      g2 == Get(rule2, "pdtGreaterThan")
      l2 == Get(rule2, "pdtLessThanOrEqualTo")
      mg1 == Get(rule1, "meanDelayGreaterThan")
      ml1 == Get(rule1, "meanDelayLessThanOrEqualTo")
      mg2 == Get(rule2, "meanDelayGreaterThan")
      ml2 == Get(rule2, "meanDelayLessThanOrEqualTo")
      From(v) == IF IsSet(v) THEN NumOf(v) ELSE -1000000
      To(v) == IF IsSet(v) THEN NumOf(v) ELSE 1000000
  IN  IF IsSet(l1) /\ IsSet(g2) /\ l1 = g2 THEN FALSE
      ELSE IF IsSet(l2) /\ IsSet(g1) /\ l2 = g1 THEN FALSE
      ELSE IF To(l1) < From(g2) \/ From(g1) > To(l2) THEN FALSE
      ELSE IF (~IsSet(mg1) /\ ~IsSet(ml1)) \/ (~IsSet(mg2) /\ ~IsSet(ml2)) THEN TRUE
      ELSE IF IsSet(ml1) /\ IsSet(mg2) /\ ml1 = mg2 THEN FALSE
      ELSE IF IsSet(ml2) /\ IsSet(mg1) /\ ml2 = mg1 THEN FALSE
      ELSE IF To(ml1) < From(mg2) \/ From(mg1) > To(ml2) THEN FALSE
      ELSE TRUE

checkOverlappingRangesRules(groupId, rules) ==
  LET Hit(p) == doRangesRulesOverlap(rules[p[1]], rules[p[2]])
      hits == Filter(PairsBelow(Len(rules)), Hit)
  IN  [k \in 1 .. Len(hits) |-> [groupId |-> groupId, rule1Index |-> hits[k][1] - 1, rule2Index |-> hits[k][2] - 1]]

\* checkOverlappingCappingRules counting the rules of the group, not those of one variant
checkOverlappingCappingRulesAnyVariant(groupId, rules) ==
  LET singles == IndicesWhere(rules, IsSingleRule, 1)
      ranges == IndicesWhere(rules, IsRangesRule, 1)
  IN     (IF Len(rules) > 1 /\ Len(singles) > 0
          THEN <<[groupId |-> groupId, ruleIndices |-> [k \in 1 .. Len(singles) |-> singles[k] - 1],
                  message |-> "single"]>>
          ELSE <<>>)
      \o (IF Len(rules) > 1 /\ Len(ranges) > 0
          THEN <<[groupId |-> groupId, ruleIndices |-> [k \in 1 .. Len(ranges) |-> ranges[k] - 1],
                  message |-> "ranges"]>>
          ELSE <<>>)

checkOverlappingCappingRules(groupId, rules) ==
  LET singles == IndicesWhere(rules, IsSingleRule, 1)
      ranges == IndicesWhere(rules, IsRangesRule, 1)
  IN     (IF Len(singles) > 1
          THEN <<[groupId |-> groupId, ruleIndices |-> [k \in 1 .. Len(singles) |-> singles[k] - 1],
                  message |-> "single"]>>
          ELSE <<>>)
      \o (IF Len(ranges) > 1
          THEN <<[groupId |-> groupId, ruleIndices |-> [k \in 1 .. Len(ranges) |-> ranges[k] - 1],
                  message |-> "ranges"]>>
          ELSE <<>>)

checkOverlappingRules(group) ==
  IF group.type = "ranges" THEN checkOverlappingRangesRules(group.id, group.rules)
  ELSE IF group.type = "capping" THEN checkOverlappingCappingRules(group.id, group.rules)
  ELSE <<>>

\* validationIssues after validateConfiguration
validateConfiguration(gs) ==
  [duplicateGroups |-> checkDuplicateGroups(gs) \o checkDuplicateDisplayFormats(gs),
   requiredFields |-> TooManyFormats(gs),
   overlappingRules |->
     ConcatAll([i \in 1 .. Len(gs) |-> IF Len(gs[i].rules) > 1 THEN checkOverlappingRules(gs[i]) ELSE <<>>])]

isValid(issues) ==
  Len(issues.duplicateGroups) = 0 /\ Len(issues.overlappingRules) = 0 /\ Len(issues.requiredFields) = 0


\* ---------------------------------------------------- ExportImportManager
\* a raw document is Null (empty file) or an object; its pdt, when present, is Arr(sections)
\* or a primitive such as Str(..)
PdtIsArray(doc) == Get(doc, "pdt")[1] = "arr"

IsSectionObject(section) ==
  \E k \in {"display_format", "ranges", "capping", "rounding"} : k \in DOMAIN section

\* parsed is <<>> for a document that parsed to null, and <<doc>> for an object
validateImportedConfig(parsed) ==
  IF parsed = <<>> THEN [valid |-> FALSE, errors |-> <<"Configuration is empty or invalid">>]
  ELSE
    LET doc == parsed[1]
        e1 == IF ~Truthy(Get(doc, "configFormatVersion")) /\ ~Truthy(Get(doc, "config_format_version"))
              THEN <<"Missing config format version, will use default">> ELSE <<>>
        e2 == IF ~Truthy(Get(doc, "variant")) THEN <<"Missing variant">> ELSE <<>>
        e3 == IF ~Truthy(Get(doc, "platform")) THEN <<"Missing platform">> ELSE <<>>
        errors == e1 \o e2 \o e3
    IN  IF ~Truthy(Get(doc, "pdt"))
          THEN [valid |-> FALSE, errors |-> errors \o <<"Missing PDT configuration">>]
        ELSE IF ~PdtIsArray(doc)
          THEN [valid |-> FALSE, errors |-> errors \o <<"PDT configuration must be an array">>]
        ELSE IF ~\E i \in 1 .. Len(doc.pdt[2]) : IsSectionObject(doc.pdt[2][i])
          THEN [valid |-> FALSE, errors |-> errors \o <<"No valid PDT sections found">>]
        ELSE [valid |-> e2 \o e3 = <<>>, errors |-> errors]

Remove(o, k) == [x \in (DOMAIN o) \ {k} |-> o[x]]

generateEntryKey(entry, paramKeys) ==
  LET c == CondOf(entry)
      Part(key) ==
        LET v == Get(c, key)
        IN  IF v = Undefined THEN <<>>
            ELSE IF v[1] = "arr"
              THEN <<key \o ":" \o JoinWith([i \in 1 .. Len(v[2]) |-> ToStr(v[2][i])], ",")>>
            ELSE <<key \o ":" \o ToStr(v)>>
  IN  JoinWith(ConcatAll([i \in 1 .. Len(paramKeys) |-> Part(paramKeys[i])])
               \o (IF Truthy(Get(entry, "delivery_option"))
                   THEN <<"delivery_option:" \o ToStr(entry.delivery_option)>> ELSE <<>>), "|")

\* the key of groupRangesByPdtBounds / groupEntriesByMeanDelay for one bound pair
BoundPairKey(greaterThan, lessThanOrEqualTo) ==
  IF greaterThan # Undefined /\ lessThanOrEqualTo # Undefined
    THEN ToStr(greaterThan) \o "-" \o ToStr(lessThanOrEqualTo)
  ELSE IF greaterThan # Undefined THEN ">" \o ToStr(greaterThan)
  ELSE IF lessThanOrEqualTo # Undefined THEN "<=" \o ToStr(lessThanOrEqualTo)
  ELSE "default"

groupRangesByPdtBounds(entries) ==
  Buckets(entries, [i \in 1 .. Len(entries) |->
            BoundPairKey(Get(CondOf(entries[i]), "pdt_greater_than"),
                         Get(CondOf(entries[i]), "pdt_less_than_or_equal_to"))])

groupEntriesByMeanDelay(entries) ==
  Buckets(entries, [i \in 1 .. Len(entries) |->
            BoundPairKey(Get(CondOf(entries[i]), "mean_delay_greater_than"),
                         Get(CondOf(entries[i]), "mean_delay_less_than_or_equal_to"))])

\* the bound part shared by getPdtRangeDescription and getMeanDelayDescription
BoundPairText(label, greaterThan, lessThanOrEqualTo) ==
  IF greaterThan # Undefined /\ lessThanOrEqualTo # Undefined
    THEN <<label, ToStr(greaterThan), "-", ToStr(lessThanOrEqualTo)>>
  ELSE IF greaterThan # Undefined THEN <<label, ">", ToStr(greaterThan)>>
  ELSE <<label, "<=", ToStr(lessThanOrEqualTo)>>

getPdtRangeDescription(entry) ==
  LET c == CondOf(entry)
  IN  IF Get(c, "pdt_greater_than") # Undefined \/ Get(c, "pdt_less_than_or_equal_to") # Undefined
      THEN BoundPairText("PDT ", Get(c, "pdt_greater_than"), Get(c, "pdt_less_than_or_equal_to"))
      ELSE <<"Default">>

getMeanDelayDescription(entry) ==
  LET c == CondOf(entry)
  IN  IF "conditions" \notin DOMAIN entry THEN <<>>
      ELSE IF Get(c, "mean_delay_greater_than") # Undefined
              \/ Get(c, "mean_delay_less_than_or_equal_to") # Undefined
      THEN BoundPairText("Mean Delay ", Get(c, "mean_delay_greater_than"),
                         Get(c, "mean_delay_less_than_or_equal_to"))
      ELSE <<"Default Mean Delay">>

\* entries of one bucket, each given a title when it has none
Titled(entries, TitleFor(_)) ==
  [i \in 1 .. Len(entries) |->
     Put(entries[i], "_title", IF TitleOf(entries[i]) # <<>> THEN TitleOf(entries[i]) ELSE TitleFor(i))]

MergeDisplayFormat(entries, commonParamKeys) ==
  LET bs == Buckets(entries, [i \in 1 .. Len(entries) |-> generateEntryKey(entries[i], commonParamKeys)])
      Out(e) ==
           [format |-> Get(e, "format"),
            _title |-> IF TitleOf(e) # <<>> THEN TitleOf(e) ELSE <<"Format: ", ToStr(Get(e, "format"))>>]
        @@ Cond("conditions" \in DOMAIN e, "conditions", CondOf(e))
  IN  ConcatAll([b \in 1 .. Len(bs) |-> [i \in 1 .. Len(bs[b].entries) |-> Out(bs[b].entries[i])]])

\* the entries of one common-parameter sub-group of one PDT group
MergeRangesSubGroup(entriesGroup) ==
  LET baseTitle == <<"Ranges ">> \o getPdtRangeDescription(entriesGroup[1])
      md == groupEntriesByMeanDelay(entriesGroup)
      GroupTitle(m) ==
        IF Len(md) > 1 /\ md[m].key # "default"
        THEN baseTitle \o <<", ">> \o getMeanDelayDescription(md[m].entries[1])
        ELSE baseTitle
      One(m) ==
        LET T(i) == IF Len(md[m].entries) > 1 THEN GroupTitle(m) \o <<" ", ToString(i)>> ELSE GroupTitle(m)
        IN  Titled(md[m].entries, T)
  IN  ConcatAll([m \in 1 .. Len(md) |-> One(m)])

MergeRanges(entries, commonParamKeys) ==
  LET pdtGroups == groupRangesByPdtBounds(entries)
      NotPdt(k) == k # "pdt_greater_than" /\ k # "pdt_less_than_or_equal_to"
      keys == Filter(commonParamKeys, NotPdt)
      OnePdt(g) ==
        LET sub == Buckets(g.entries, [i \in 1 .. Len(g.entries) |-> generateEntryKey(g.entries[i], keys)])
        IN  ConcatAll([k \in 1 .. Len(sub) |-> MergeRangesSubGroup(sub[k].entries)])
  IN  ConcatAll([p \in 1 .. Len(pdtGroups) |-> OnePdt(pdtGroups[p])])

\* MergeCapping with the numbering appended to the stored title as well:
\* `${entry._title || 'Capping ' + option} ${index > 0 ? index + 1 : ''}`
MergeCappingNumbered(entries, commonParamKeys) ==
  LET bs == Buckets(entries, [i \in 1 .. Len(entries) |-> generateEntryKey(entries[i], commonParamKeys)])
      One(b) ==
        [i \in 1 .. Len(bs[b].entries) |->
           Put(bs[b].entries[i], "_title",
               (IF TitleOf(bs[b].entries[i]) # <<>> THEN TitleOf(bs[b].entries[i])
                ELSE <<"Capping ", ToStr(OrElse(Get(bs[b].entries[i], "delivery_option"), Str("")))>>)
               \o <<" ">> \o (IF i > 1 THEN <<ToString(i)>> ELSE <<>>))]
  IN  ConcatAll([b \in 1 .. Len(bs) |-> One(b)])

MergeCapping(entries, commonParamKeys) ==
  LET bs == Buckets(entries, [i \in 1 .. Len(entries) |-> generateEntryKey(entries[i], commonParamKeys)])
      One(b) ==
        LET T(i) == <<"Capping ", ToStr(OrElse(Get(bs[b].entries[i], "delivery_option"), Str(""))), " ">>
                    \o (IF i > 1 THEN <<ToString(i)>> ELSE <<>>)
        IN  Titled(bs[b].entries, T)
  IN  ConcatAll([b \in 1 .. Len(bs) |-> One(b)])

mergeEntriesByCommonParams(entries, type, commonParamKeys) ==
  IF type = "display_format" THEN MergeDisplayFormat(entries, commonParamKeys)
  ELSE IF type = "ranges" THEN MergeRanges(entries, commonParamKeys)
  ELSE IF type = "capping" THEN MergeCapping(entries, commonParamKeys)
  ELSE LET T(i) == <<type, " ", ToString(i)>> IN Titled(entries, T)

\* all entries of the sections whose first section key is kind, in document order
EntriesOfKind(pdtSections, kind) ==
  ConcatAll([i \in 1 .. Len(pdtSections) |->
               IF getSectionType(pdtSections[i]) = (IF kind = "display_format" THEN "display-format" ELSE kind)
               THEN pdtSections[i][kind] ELSE <<>>])

mergePdtSectionsByCommonParams(pdtSections) ==
  LET df == EntriesOfKind(pdtSections, "display_format")
      rg == EntriesOfKind(pdtSections, "ranges")
      cp == EntriesOfKind(pdtSections, "capping")
      rd == EntriesOfKind(pdtSections, "rounding")
  IN     (IF Len(df) > 0
          THEN <<[display_format |-> mergeEntriesByCommonParams(df, "display_format", DisplayFormatParamKeys)]>>
          ELSE <<>>)
      \o (IF Len(rg) > 0
          THEN <<[ranges |-> mergeEntriesByCommonParams(rg, "ranges",
                     RangesParamKeys \o <<"pdt_greater_than", "pdt_less_than_or_equal_to">>)]>>
          ELSE <<>>)
      \o (IF Len(cp) > 0
          THEN <<[capping |-> mergeEntriesByCommonParams(cp, "capping",
                     RangesParamKeys \o <<"pdt_greater_than", "pdt_less_than_or_equal_to">>)]>>
          ELSE <<>>)
      \o (IF Len(rd) > 0 THEN <<[rounding |-> rd]>> ELSE <<>>)

normalizeConfig(doc) ==
  LET version ==
        IF "config_format_version" \in DOMAIN doc
          THEN (IF doc.config_format_version # Str("undefined") THEN doc.config_format_version
                ELSE IF "configFormatVersion" \in DOMAIN doc THEN doc.configFormatVersion
                ELSE Str("1"))
        ELSE IF "configFormatVersion" \in DOMAIN doc THEN doc.configFormatVersion
        ELSE Str("1")
      country ==
        IF "country_code" \in DOMAIN doc THEN doc.country_code
        ELSE IF "countryCode" \in DOMAIN doc THEN doc.countryCode
        ELSE Str("")
      rest == Remove(Remove(doc, "config_format_version"), "country_code")
  IN  [k \in (DOMAIN rest) \cup {"configFormatVersion", "variant", "platform", "countryCode", "pdt"} |->
         CASE k = "configFormatVersion" -> version
           [] k = "countryCode" -> country
           [] k = "variant" -> IF "variant" \in DOMAIN doc THEN doc.variant ELSE Str("default")
           [] k = "platform" -> IF "platform" \in DOMAIN doc THEN doc.platform ELSE Str("")
           [] k = "pdt" -> IF PdtIsArray(doc) THEN mergePdtSectionsByCommonParams(doc.pdt[2]) ELSE <<>>
           [] OTHER -> rest[k]]


\* ------------------------------------------- ConfigManager: the mutators
\* JSON.stringify of one value: NaN is written as null
JsonOf(v) == IF v = <<"NaN">> THEN Null ELSE v

\* JSON.stringify of an object of primitives: keys holding undefined are dropped
JsonFlat(o) ==
  [k \in {x \in DOMAIN o : x = "conditions" \/ o[x] # Undefined} |->
     IF k = "conditions" THEN o[k] ELSE JsonOf(o[k])]

\* JSON.stringify of one pdt entry
JsonEntry(e) ==
  [k \in {x \in DOMAIN e : x \in {"_title", "conditions", "single", "ranges"} \/ e[x] # Undefined} |->
     CASE k = "_title" -> e[k]
       [] k = "conditions" -> JsonFlat(e[k])
       [] k = "single" -> JsonFlat(e[k])
       [] k = "ranges" -> [min |-> JsonFlat(e[k].min), max |-> JsonFlat(e[k].max)]
       [] OTHER -> JsonOf(e[k])]

\* JSON.stringify(this.config): the blob written under the key pdtConfig
stringify(cfg) ==
  <<"json",
    [k \in DOMAIN cfg |->
       IF k = "pdt"
       THEN [i \in 1 .. Len(cfg.pdt) |->
               [t \in DOMAIN cfg.pdt[i] |-> [j \in 1 .. Len(cfg.pdt[i][t]) |-> JsonEntry(cfg.pdt[i][t][j])]]]
       ELSE JsonOf(cfg[k])]>>

\* saveConfig: the blob after the write; a write that throws (quota) is caught and
\* leaves the stored blob as it was
saveConfig(cfg, blob, writeOk) == IF writeOk THEN stringify(cfg) ELSE blob

\* updateConfigFromGroups that leaves config.pdt as it was
updateConfigFromGroupsStale(cfg, gs) == cfg

\* updateConfigFromGroups: config.pdt is rebuilt from the groups
updateConfigFromGroups(cfg, gs) == [cfg EXCEPT !.pdt = toConfig(gs)]

\* position of this.groups[id] in insertion order, 0 when there is no such key
IndexOf(gs, id) ==
  IF \E i \in 1 .. Len(gs) : gs[i].id = id THEN CHOOSE i \in 1 .. Len(gs) : gs[i].id = id ELSE 0

\* this.groups[g.id] = g
PutGroup(gs, g) == IF IndexOf(gs, g.id) # 0 THEN [gs EXCEPT ![IndexOf(gs, g.id)] = g] ELSE Append(gs, g)

RemoveAt(s, i) == SubSeq(s, 1, i - 1) \o SubSeq(s, i + 1, Len(s))

\* an in-place change of g.commonParams or g.rules is seen by every group that holds
\* the same objects, and by the template they came from
Shared(gs, g) ==
  [j \in 1 .. Len(gs) |->
     IF gs[j].id = g.id THEN g
     ELSE IF g.ref # 0 /\ gs[j].ref = g.ref
       THEN [gs[j] EXCEPT !.commonParams = g.commonParams, !.rules = g.rules]
     ELSE gs[j]]

SharedTemplates(tpls, g) ==
  [k \in 1 .. Len(tpls) |->
     IF k = g.ref THEN [tpls[k] EXCEPT !.commonParams = g.commonParams, !.rules = g.rules] ELSE tpls[k]]

\* what a mutator leaves behind: found is FALSE when it returned early
Result(found, ret, gs, n, tpls) ==
  [found |-> found, ret |-> ret, groups |-> gs, idCounter |-> n, templates |-> tpls]

adaptTemplateToSectionType(templateGroup, targetSectionType, newId) ==
  LET cp == templateGroup.commonParams
      commonParams ==
        CASE targetSectionType = "display-format" ->
               [deliveryMode |-> OrElse(Get(cp, "deliveryMode"), Str("DELIVERY")),
                marketplace |-> OrElse(Get(cp, "marketplace"), Str("false"))]
          [] targetSectionType = "ranges" ->
               [deliveryOption |-> OrElse(Get(cp, "deliveryOption"), Str("STANDARD")),
                deliveryMode |-> OrElse(Get(cp, "deliveryMode"), Str("DELIVERY")),
                marketplace |-> OrElse(Get(cp, "marketplace"), Str("false")),
                verticalType |-> OrElse(Get(cp, "verticalType"), Str(""))]
          [] targetSectionType = "capping" ->
               [deliveryOption |-> OrElse(Get(cp, "deliveryOption"), Str("STANDARD")),
                deliveryMode |-> OrElse(Get(cp, "deliveryMode"), Str("DELIVERY"))]
          [] targetSectionType = "rounding" -> [strategy |-> Str("NEAREST_5")]
          [] OTHER -> EmptyObj
      title == IF templateGroup.title # <<>> THEN templateGroup.title
               ELSE <<"New ", sectionTypeToDisplayName(targetSectionType)>>
  IN  Group(newId, targetSectionType, title, commonParams, createDefaultRules(targetSectionType), 0)

\* addGroup(sectionType, templateGroup): template is <<>> for no template, else <<templateGroup>>
addGroup(gs, n, tpls, sectionType, template) ==
  LET id == GroupId(sectionType, n)
      newGroup ==
        IF template # <<>> THEN
          IF template[1].type # sectionType
          THEN adaptTemplateToSectionType(template[1], sectionType, id)
          ELSE [template[1] EXCEPT !.id = id]
        ELSE Group(id, sectionType, <<"New ", sectionTypeToDisplayName(sectionType)>>, EmptyObj,
                   createDefaultRules(sectionType), 0)
  IN  Result(TRUE, Str(id), PutGroup(gs, newGroup), n + 1, tpls)

\* JSON.parse(JSON.stringify(rule)) of one rule object
JsonRules(rules) == [i \in 1 .. Len(rules) |-> JsonFlat(rules[i])]

cloneGroup(gs, n, tpls, groupId) ==
  LET i == IndexOf(gs, groupId)
      id == GroupId(gs[i].type, n)
  IN  IF i = 0 THEN Result(FALSE, Null, gs, n, tpls)
      ELSE Result(TRUE, Str(id),
                  PutGroup(gs, Group(id, gs[i].type, <<"Copy of ">> \o gs[i].title,
                                     JsonFlat(gs[i].commonParams), JsonRules(gs[i].rules), 0)),
                  n + 1, tpls)

\* deleteGroup that removes by position: an id that is not found removes the last group
deleteGroupSplice(gs, n, tpls, sectionType, groupId) ==
  LET i == IndexOf(gs, groupId)
  IN  IF gs = <<>> THEN Result(FALSE, Bool(FALSE), gs, n, tpls)
      ELSE Result(TRUE, Bool(TRUE), RemoveAt(gs, IF i = 0 THEN Len(gs) ELSE i), n, tpls)

deleteGroup(gs, n, tpls, sectionType, groupId) ==
  LET i == IndexOf(gs, groupId)
  IN  IF i = 0 THEN Result(FALSE, Bool(FALSE), gs, n, tpls)
      ELSE Result(TRUE, Bool(TRUE), RemoveAt(gs, i), n, tpls)

updateGroupCommonParam(gs, n, tpls, groupId, paramName, value) ==
  LET i == IndexOf(gs, groupId)
      g == [gs[i] EXCEPT !.commonParams = Put(@, paramName, value)]
  IN  IF i = 0 THEN Result(FALSE, Bool(FALSE), gs, n, tpls)
      ELSE Result(TRUE, Bool(TRUE), Shared(gs, g), n, SharedTemplates(tpls, g))


addRule(gs, n, tpls, groupId, format) ==
  LET i == IndexOf(gs, groupId)
      rules == gs[i].rules
      pushed ==
        CASE gs[i].type = "display-format" ->
               Append(rules, [format |-> OrElse(format, Str("DISPLAY_FORMAT_MINUTE_RANGE")),
                              conditions |-> EmptyObj])
          [] gs[i].type = "ranges" ->
               Append(rules, IF Len(rules) > 0 THEN rules[Len(rules)] ELSE DefaultRangesRule)
          [] gs[i].type = "capping" -> Append(rules, DefaultSingleRule)
          [] OTHER -> rules
      g == [gs[i] EXCEPT !.rules = pushed]
  IN  IF i = 0 THEN Result(FALSE, Bool(FALSE), gs, n, tpls)
      ELSE Result(TRUE, Bool(TRUE), Shared(gs, g), n, SharedTemplates(tpls, g))

\* group.rules[ruleIndex] is an object (ruleIndex counts from 0)
HasRule(group, ruleIndex) == ruleIndex >= 0 /\ ruleIndex < Len(group.rules)

\* updateRule that treats the type like any other field: the fields of the old variant stay
updateRuleKeepFields(gs, n, tpls, groupId, ruleIndex, field, value) ==
  LET i == IndexOf(gs, groupId)
      g == [gs[i] EXCEPT !.rules[ruleIndex + 1] = Put(@, field, value)]
  IN  IF i = 0 THEN Result(FALSE, Bool(FALSE), gs, n, tpls)
      ELSE IF ~HasRule(gs[i], ruleIndex) THEN Result(FALSE, Bool(FALSE), gs, n, tpls)
      ELSE Result(TRUE, Bool(TRUE), Shared(gs, g), n, SharedTemplates(tpls, g))

updateRule(gs, n, tpls, groupId, ruleIndex, field, value) ==
  LET i == IndexOf(gs, groupId)
      old == gs[i].rules[ruleIndex + 1]
      new == IF gs[i].type = "capping" /\ field = "type"
             THEN (IF value = Str("single") THEN DefaultSingleRule
                   ELSE IF value = Str("ranges") THEN DefaultCappingRangesRule
                   ELSE old)
             ELSE Put(old, field, value)
      g == [gs[i] EXCEPT !.rules[ruleIndex + 1] = new]
  IN  IF i = 0 THEN Result(FALSE, Bool(FALSE), gs, n, tpls)
      ELSE IF ~HasRule(gs[i], ruleIndex) THEN Result(FALSE, Bool(FALSE), gs, n, tpls)
      ELSE Result(TRUE, Bool(TRUE), Shared(gs, g), n, SharedTemplates(tpls, g))

\* deleteRule without the test of the rule index: the splice removes nothing, and the
\* call goes on to write and return true
deleteRuleAnyIndex(gs, n, tpls, groupId, ruleIndex) ==
  LET i == IndexOf(gs, groupId)
      g == [gs[i] EXCEPT !.rules = RemoveAt(@, ruleIndex + 1)]
  IN  IF i = 0 THEN Result(FALSE, Bool(FALSE), gs, n, tpls)
      ELSE Result(TRUE, Bool(TRUE), Shared(gs, g), n, SharedTemplates(tpls, g))

deleteRule(gs, n, tpls, groupId, ruleIndex) ==
  LET i == IndexOf(gs, groupId)
      g == [gs[i] EXCEPT !.rules = RemoveAt(@, ruleIndex + 1)]
  IN  IF i = 0 THEN Result(FALSE, Bool(FALSE), gs, n, tpls)
      ELSE IF ~HasRule(gs[i], ruleIndex) THEN Result(FALSE, Bool(FALSE), gs, n, tpls)
      ELSE Result(TRUE, Bool(TRUE), Shared(gs, g), n, SharedTemplates(tpls, g))

\* newTitle.startsWith('Copy of')
StartsWithCopyOf(title) == Len(title) > 0 /\ title[1] = "Copy of "

\* the rules of a ranges group "cover all positive PDT values"
CoversAllPositive(rules) ==
  LET Upper1(r) == IsSet(Get(r, "pdtLessThanOrEqualTo"))
      hasZeroLowerBound ==
        \E k \in 1 .. Len(rules) :
          /\ \/ ~IsSet(Get(rules[k], "pdtGreaterThan"))
             \/ (Get(rules[k], "pdtGreaterThan")[1] = "num" /\ Get(rules[k], "pdtGreaterThan")[2] <= 0)
          /\ Upper1(rules[k])
  IN  /\ hasZeroLowerBound
      /\ \E k \in 1 .. Len(rules) : Upper1(rules[k]) /\ NumOf(rules[k].pdtLessThanOrEqualTo) >= 100

updateGroupTitle(gs, n, tpls, groupId, newTitle) ==
  LET i == IndexOf(gs, groupId)
      title == IF gs[i].type = "ranges" /\ ~StartsWithCopyOf(newTitle) /\ CoversAllPositive(gs[i].rules)
               THEN <<"Ranges (All Positive PDT)">>
               ELSE newTitle
  IN  IF i = 0 THEN Result(FALSE, Bool(FALSE), gs, n, tpls)
      ELSE Result(TRUE, Bool(TRUE), [gs EXCEPT ![i].title = title], n, tpls)

\* ------------------------------------------------------------------ state
VARIABLES
  config,              \* ConfigManager.config
  groups,              \* ConfigManager.groups, in key insertion order
  idCounter,           \* ConfigManager.idCounter
  storage,             \* localStorage['pdtConfig']: Null or the blob of stringify
  templates,           \* the template group objects of TemplateManager.templates
  currentSection,      \* PDTConfigBuilder.currentSection
  validationIssues,    \* ValidationManager.validationIssues
  pending,             \* files handed to a FileReader whose onload has not run yet
  tempImportedConfig,  \* ExportImportManager.tempImportedConfig: <<>>, <<"own", cfg>> or <<"config">>
  diffModal,           \* the file whose diff the diff viewer modal shows, "" when hidden
  summaryModal,        \* the file whose diff was confirmed and whose summary the summary modal shows, "" when hidden
  tempFile,            \* history: the file tempImportedConfig was read from
  assigned,            \* history: every group id handed out since construction
  writeFailures,       \* how many localStorage writes in a row have thrown
  last,                \* history: whether the target of the last API call existed, and what it returned
  event,               \* history: the last import event and how its handler ended
  probe                \* argument and result of the pure function under test

vars == <<config, groups, idCounter, storage, templates, currentSection, validationIssues,
          pending, tempImportedConfig, diffModal, summaryModal, tempFile, assigned,
          writeFailures, last, event, probe>>

storeVars == <<config, groups, idCounter, storage, templates>>
importVars == <<pending, tempImportedConfig, diffModal, summaryModal, tempFile, event>>

\* ----------------------------------------------------------------- inputs
\* the built-in templates with one group each that the model offers
Templates ==
  <<[template |-> "standard-capping", type |-> "capping", title |-> <<"Standard Delivery Capping">>,
     commonParams |-> [deliveryOption |-> Str("STANDARD"), deliveryMode |-> Str("DELIVERY")],
     rules |-> <<DefaultSingleRule>>],
    [template |-> "nearest-5-rounding", type |-> "rounding", title |-> <<"Nearest 5 Minutes">>,
     commonParams |-> [strategy |-> Str("NEAREST_5")],
     rules |-> <<>>]>>

\* {...templateGroup, type}: a new object that holds the template's commonParams and rules
AsGroup(tpls, k, type) == Group("", type, tpls[k].title, tpls[k].commonParams, tpls[k].rules, k)

\* what the user can pick in a common-parameter control of a section
ParamInputs(sectionType) ==
  CASE sectionType = "display-format" -> {<<"deliveryMode", Str("PICKUP")>>}
    [] sectionType = "ranges" -> {<<"verticalType", Str("restaurants")>>}
    [] sectionType = "capping" -> {<<"pdtGreaterThan", Str("10")>>}
    [] OTHER -> {<<"strategy", Str("FLOOR_5")>>}

\* what the user can enter in a cell of a rules table
RuleInputs(groupType) ==
  CASE groupType = "display-format" -> {<<"format", Str("DISPLAY_FORMAT_MINUTE_VALUE")>>}
    [] groupType = "ranges" -> {<<"pdtLessThanOrEqualTo", Num(10)>>}
    [] OTHER -> {<<"type", Str("ranges")>>}

\* what the user can type into a title
TitleInputs == {<<"Lunch">>}

\* localStorage.setItem either succeeds or throws (quota exceeded); writeFailures counts
\* the writes that have thrown in a row
WriteOutcomes == IF writeFailures < MaxWriteFailures THEN {TRUE, FALSE} ELSE {TRUE}

Failed(writeOk) == IF writeOk THEN 0 ELSE writeFailures + 1

\* what is remembered of the last call: did its target exist, and what did it return
NoCall == [existed |-> TRUE, ret |-> Undefined]
Call(existed, ret) == [existed |-> existed, ret |-> ret]

IdsOf(gs) == {gs[i].id : i \in 1 .. Len(gs)}

\* ------------------------------------------------------------------- Init
\* initializeConfig: the state of a new ConfigManager after reading the stored blob
\* (no item, or a text that JSON.parse rejects: the fields keep their initial values; a
\* parsed value is assigned to config before rebuildGroupsMapping runs, and an exception
\* of the rebuild is caught after groups and idCounter were cleared and partly filled)
initializeConfig(saved) ==
  IF saved[1] # "json" THEN [config |-> DefaultConfig, groups |-> <<>>, idCounter |-> 0]
  ELSE IF "pdt" \notin DOMAIN saved[2] THEN [config |-> saved[2], groups |-> <<>>, idCounter |-> 0]
  ELSE LET Loaded(r) == [config |-> saved[2], groups |-> r.groups, idCounter |-> r.idCounter]
       IN  Loaded(rebuildGroupsMapping(saved[2].pdt))

\* a blob that an earlier session stored: one capping group and one rounding group
SavedConfig ==
  updateConfigFromGroups(DefaultConfig,
    <<Group("capping-0", "capping", <<"New ", "Capping">>, EmptyObj, <<DefaultSingleRule>>, 0),
      Group("rounding-1", "rounding", <<"New ", "Rounding">>, EmptyObj, <<>>, 0)>>)

StoredBlobs == <<Null, stringify(SavedConfig), <<"corrupt">>>>

InitWith(blob, section, input) ==
  \E s \in {initializeConfig(blob)} :
      /\ config = s.config
      /\ groups = s.groups
      /\ idCounter = s.idCounter
      /\ storage = blob
      /\ templates = Templates
      /\ currentSection = section
      /\ validationIssues = NoIssues
      /\ pending = {}
      /\ tempImportedConfig = <<>>
      /\ diffModal = ""
      /\ summaryModal = ""
      /\ tempFile = ""
      /\ assigned = IdsOf(s.groups)
      /\ writeFailures = 0
      /\ last = NoCall
      /\ event = ""
      /\ probe = input

\* --------------------------------------------- calls of the ConfigManager API
\* the common tail of the mutators: the early return leaves everything alone, otherwise
\* updateConfigFromGroups rebuilds config.pdt and ends with saveConfig
Mutate(res, writeOk) ==
  IF res.found
  THEN /\ groups' = res.groups
       /\ idCounter' = res.idCounter
       /\ templates' = res.templates
       /\ config' = updateConfigFromGroups(config, res.groups)
       /\ storage' = saveConfig(config', storage, writeOk)
       /\ assigned' = assigned \cup IdsOf(res.groups)
       /\ writeFailures' = Failed(writeOk)
  ELSE UNCHANGED <<storeVars, assigned, writeFailures>>

\* an id a caller may hold: a live one, a deleted one, or the one not handed out yet
Targets == {GroupId(currentSection, k) : k \in 0 .. idCounter}

Exists(id) == IndexOf(groups, id) # 0

\* the rule indices a caller may hold for a group: its rules, and one past the end
Indices(id) == IF Exists(id) THEN 0 .. Len(groups[IndexOf(groups, id)].rules) ELSE {0}

ExistsRule(id, index) == Exists(id) /\ HasRule(groups[IndexOf(groups, id)], index)

Room == Len(groups) < MaxGroups /\ idCounter < MaxId

CallAddGroup ==
  \E writeOk \in WriteOutcomes :
    LET res == addGroup(groups, idCounter, templates, currentSection, <<>>)
    IN  /\ Room
        /\ Mutate(res, writeOk)
        /\ last' = Call(TRUE, res.ret)
        /\ UNCHANGED <<currentSection, validationIssues, importVars, probe>>

CallCloneGroup ==
  \E writeOk \in WriteOutcomes, id \in Targets :
    LET res == cloneGroup(groups, idCounter, templates, id)
    IN  /\ Room
        /\ Mutate(res, writeOk)
        /\ last' = Call(Exists(id), res.ret)
        /\ UNCHANGED <<currentSection, validationIssues, importVars, probe>>

CallDeleteGroup ==
  \E writeOk \in WriteOutcomes, id \in Targets :
    LET res == deleteGroup(groups, idCounter, templates, currentSection, id)
    IN  /\ Mutate(res, writeOk)
        /\ last' = Call(Exists(id), res.ret)
        /\ UNCHANGED <<currentSection, validationIssues, importVars, probe>>

CallUpdateGroupCommonParam ==
  \E writeOk \in WriteOutcomes, id \in Targets, in \in ParamInputs(currentSection) :
    LET res == updateGroupCommonParam(groups, idCounter, templates, id, in[1], in[2])
    IN  /\ Mutate(res, writeOk)
        /\ last' = Call(Exists(id), res.ret)
        /\ UNCHANGED <<currentSection, validationIssues, importVars, probe>>

CallAddRule ==
  \E writeOk \in WriteOutcomes, id \in Targets :
    LET res == addRule(groups, idCounter, templates, id, Null)
    IN  /\ Exists(id) => Len(groups[IndexOf(groups, id)].rules) < MaxRules
        /\ Mutate(res, writeOk)
        /\ last' = Call(Exists(id), res.ret)
        /\ UNCHANGED <<currentSection, validationIssues, importVars, probe>>

CallUpdateRule ==
  \E writeOk \in WriteOutcomes, id \in Targets :
    \E index \in Indices(id), in \in RuleInputs(currentSection) :
      LET res == updateRule(groups, idCounter, templates, id, index, in[1], in[2])
      IN  /\ Mutate(res, writeOk)
          /\ last' = Call(ExistsRule(id, index), res.ret)
          /\ UNCHANGED <<currentSection, validationIssues, importVars, probe>>

CallDeleteRule ==
  \E writeOk \in WriteOutcomes, id \in Targets :
    \E index \in Indices(id) :
      LET res == deleteRule(groups, idCounter, templates, id, index)
      IN  /\ Mutate(res, writeOk)
          /\ last' = Call(ExistsRule(id, index), res.ret)
          /\ UNCHANGED <<currentSection, validationIssues, importVars, probe>>

\* updateGroupTitle calls updateConfigFromGroups and then saveConfig once more
CallUpdateGroupTitle ==
  \E writeOk \in WriteOutcomes, id \in Targets, title \in TitleInputs :
    LET res == updateGroupTitle(groups, idCounter, templates, id, title)
    IN  /\ IF res.found
           THEN /\ groups' = res.groups
                /\ config' = updateConfigFromGroups(config, res.groups)
                /\ storage' = saveConfig(config', saveConfig(config', storage, writeOk), writeOk)
                /\ writeFailures' = Failed(writeOk)
                /\ UNCHANGED <<idCounter, templates, assigned>>
           ELSE UNCHANGED <<storeVars, assigned, writeFailures>>
        /\ last' = Call(Exists(id), res.ret)
        /\ UNCHANGED <<currentSection, validationIssues, importVars, probe>>

InitStore == \E section \in SectionTypes : InitWith(Null, section, <<>>)

NextStore ==
  \/ CallAddGroup
  \/ CallCloneGroup
  \/ CallDeleteGroup
  \/ CallUpdateGroupCommonParam
  \/ CallAddRule
  \/ CallUpdateRule
  \/ CallDeleteRule
  \/ CallUpdateGroupTitle

SpecStore == InitStore /\ [][NextStore]_vars


\* ------------------------------------------------- PDTConfigBuilder handlers
\* the groups the page shows: those of the current section
Shown == {groups[i].id : i \in {j \in 1 .. Len(groups) : groups[j].type = currentSection}}

RulesOf(id) == groups[IndexOf(groups, id)].rules

\* addNewGroup: addGroup, then validateConfiguration
AddNewGroup ==
  \E writeOk \in WriteOutcomes :
    LET res == addGroup(groups, idCounter, templates, currentSection, <<>>)
    IN  /\ Room
        /\ Mutate(res, writeOk)
        /\ validationIssues' = validateConfiguration(groups')
        /\ last' = Call(TRUE, res.ret)
        /\ UNCHANGED <<currentSection, importVars, probe>>

\* cloneGroup: the issues are left as they are
CloneGroup ==
  \E writeOk \in WriteOutcomes, id \in Shown :
    LET res == cloneGroup(groups, idCounter, templates, id)
    IN  /\ Room
        /\ Mutate(res, writeOk)
        /\ last' = Call(TRUE, res.ret)
        /\ UNCHANGED <<currentSection, validationIssues, importVars, probe>>

\* deleteGroup, after the user said yes to confirm(): the issues are left as they are
DeleteGroup ==
  \E writeOk \in WriteOutcomes, id \in Shown :
    LET res == deleteGroup(groups, idCounter, templates, currentSection, id)
    IN  /\ Mutate(res, writeOk)
        /\ last' = Call(TRUE, res.ret)
        /\ UNCHANGED <<currentSection, validationIssues, importVars, probe>>

UpdateGroupCommonParam ==
  \E writeOk \in WriteOutcomes, id \in Shown, in \in ParamInputs(currentSection) :
    LET res == updateGroupCommonParam(groups, idCounter, templates, id, in[1], in[2])
    IN  /\ Mutate(res, writeOk)
        /\ validationIssues' = validateConfiguration(groups')
        /\ last' = Call(TRUE, res.ret)
        /\ UNCHANGED <<currentSection, importVars, probe>>

\* addRule: a display-format group that has a rule gets an alert and nothing else
AddRule ==
  \E writeOk \in WriteOutcomes, id \in Shown :
    LET res == addRule(groups, idCounter, templates, id,
                       IF currentSection = "display-format" THEN Str("DISPLAY_FORMAT_MINUTE_RANGE") ELSE Null)
    IN  /\ Len(RulesOf(id)) < MaxRules
        /\ IF groups[IndexOf(groups, id)].type = "display-format" /\ Len(RulesOf(id)) > 0
           THEN UNCHANGED <<storeVars, assigned, writeFailures, validationIssues, last>>
           ELSE /\ Mutate(res, writeOk)
                /\ validationIssues' = validateConfiguration(groups')
                /\ last' = Call(TRUE, res.ret)
        /\ UNCHANGED <<currentSection, importVars, probe>>

UpdateRule ==
  \E writeOk \in WriteOutcomes, id \in Shown :
    \E index \in 0 .. Len(RulesOf(id)) - 1, in \in RuleInputs(currentSection) :
      LET res == updateRule(groups, idCounter, templates, id, index, in[1], in[2])
      IN  /\ Mutate(res, writeOk)
          /\ validationIssues' = validateConfiguration(groups')
          /\ last' = Call(TRUE, res.ret)
          /\ UNCHANGED <<currentSection, importVars, probe>>

\* deleteRule: the issues are left as they are
DeleteRule ==
  \E writeOk \in WriteOutcomes, id \in Shown :
    \E index \in 0 .. Len(RulesOf(id)) - 1 :
      LET res == deleteRule(groups, idCounter, templates, id, index)
      IN  /\ Mutate(res, writeOk)
          /\ last' = Call(TRUE, res.ret)
          /\ UNCHANGED <<currentSection, validationIssues, importVars, probe>>

\* saveTitle of makeGroupTitleEditable, for a title that is not blank
SaveTitle ==
  \E writeOk \in WriteOutcomes, id \in Shown, title \in TitleInputs :
    LET res == updateGroupTitle(groups, idCounter, templates, id, title)
    IN  /\ groups' = res.groups
        /\ config' = updateConfigFromGroups(config, res.groups)
        /\ storage' = saveConfig(config', saveConfig(config', storage, writeOk), writeOk)
        /\ writeFailures' = Failed(writeOk)
        /\ last' = Call(TRUE, res.ret)
        /\ UNCHANGED <<idCounter, templates, assigned, currentSection, validationIssues, importVars, probe>>

\* applyTemplate: the selector offers the templates of the current section; the group is
\* {...templateGroup, type: currentSection}; the issues are left as they are
ApplyTemplate ==
  \E writeOk \in WriteOutcomes, k \in 1 .. Len(templates) :
    LET res == addGroup(groups, idCounter, templates, currentSection, <<AsGroup(templates, k, currentSection)>>)
    IN  /\ templates[k].type = currentSection
        /\ Room
        /\ Mutate(res, writeOk)
        /\ last' = Call(TRUE, res.ret)
        /\ UNCHANGED <<currentSection, validationIssues, importVars, probe>>

\* resetConfiguration, after the user said yes to confirm(): resetConfig; the issues are
\* left as they are; tempImportedConfig keeps the object that was the config
ResetConfiguration ==
  \E writeOk \in WriteOutcomes :
    /\ config' = DefaultConfig
    /\ groups' = <<>>
    /\ idCounter' = 0
    /\ storage' = saveConfig(config', storage, writeOk)
    /\ writeFailures' = Failed(writeOk)
    /\ tempImportedConfig' = IF tempImportedConfig = <<"config">> THEN <<"own", config>> ELSE tempImportedConfig
    /\ last' = Call(TRUE, Undefined)
    /\ UNCHANGED <<templates, assigned, currentSection, validationIssues, pending, diffModal,
                   summaryModal, tempFile, event, probe>>

Init == \E section \in SectionTypes : InitWith(Null, section, <<>>)

Next ==
  \/ AddNewGroup
  \/ CloneGroup
  \/ DeleteGroup
  \/ UpdateGroupCommonParam
  \/ AddRule
  \/ UpdateRule
  \/ DeleteRule
  \/ SaveTitle
  \/ ApplyTemplate
  \/ ResetConfiguration

Spec == Init /\ [][Next]_vars



\* addRule on a capping group, which may get up to MaxEditedRules rules: the handler is
\* the one of AddRule, followed here further than MaxRules lets the other sections go
AddCappingRule ==
  \E writeOk \in WriteOutcomes, id \in Shown :
    LET res == addRule(groups, idCounter, templates, id, Null)
    IN  /\ groups[IndexOf(groups, id)].type = "capping"
        /\ Len(RulesOf(id)) < MaxEditedRules
        /\ Mutate(res, writeOk)
        /\ validationIssues' = validateConfiguration(groups')
        /\ last' = Call(TRUE, res.ret)
        /\ UNCHANGED <<currentSection, importVars, probe>>

\* the page on the Capping section, and the handlers that add, copy and remove groups and
\* rules and change the variant of a rule
InitCappingEdit == InitWith(Null, "capping", <<>>)

NextCappingEdit ==
  \/ AddNewGroup
  \/ CloneGroup
  \/ DeleteGroup
  \/ AddCappingRule
  \/ UpdateRule
  \/ DeleteRule

SpecCappingEdit == InitCappingEdit /\ [][NextCappingEdit]_vars


\* ------------------------------------------------ ExportImportManager: import
\* the files the user can pick
ThreeRangesFile == "three.yaml"
ScalarVerticalFile == "scalar.json"
NoVariantFile == "novariant.yml"
BrokenFile == "broken.json"
TextFile == "notes.txt"
FileNames == {ThreeRangesFile, ScalarVerticalFile, NoVariantFile, BrokenFile, TextFile}

RawRanges(lower, upper, conditions) ==
  [delivery_option |-> Str("STANDARD"), lower_bound |-> Num(lower), upper_bound |-> Num(upper),
   conditions |-> conditions]

RawDoc(sections) ==
  [config_format_version |-> Str("1"), variant |-> Str("v1"), platform |-> Str("talabat"),
   country_code |-> Str("ae"), pdt |-> Arr(sections)]

\* three ranges entries that differ in their PDT bounds only: (none, 13], (13, 18], (18, 23]
ThreeRangesDoc ==
  RawDoc(<<[ranges |-> <<RawRanges(5, 10, [pdt_less_than_or_equal_to |-> Num(13)]),
                         RawRanges(10, 15, [pdt_greater_than |-> Num(13), pdt_less_than_or_equal_to |-> Num(18)]),
                         RawRanges(15, 20, [pdt_greater_than |-> Num(18), pdt_less_than_or_equal_to |-> Num(23)])>>]>>)

\* a display format, and a ranges entry whose vertical_types is a string instead of a list
ScalarVerticalDoc ==
  RawDoc(<<[display_format |-> <<[format |-> Str("DISPLAY_FORMAT_MINUTE_VALUE"),
                                  conditions |-> [delivery_mode |-> Str("DELIVERY")]]>>],
           [ranges |-> <<RawRanges(5, 10, [vertical_types |-> Str("restaurants")])>>]>>)

NoVariantDoc == Remove(ThreeRangesDoc, "variant")

Extension(name) ==
  CASE name \in {ThreeRangesFile, NoVariantFile} -> "yaml"
    [] name \in {ScalarVerticalFile, BrokenFile} -> "json"
    [] OTHER -> "txt"

\* JSON.parse and jsyaml.load throw on the file that is not well formed
ParseThrows(name) == name = BrokenFile

DocOf(name) ==
  CASE name = ThreeRangesFile -> ThreeRangesDoc
    [] name = ScalarVerticalFile -> ScalarVerticalDoc
    [] OTHER -> NoVariantDoc

\* the object tempImportedConfig refers to; after finalizeImport it is the config itself
TempConfig == IF tempImportedConfig = <<"config">> THEN config ELSE tempImportedConfig[2]

\* handleFileImport up to reader.readAsText
PickFile ==
  \E name \in FileNames \ pending :
    /\ Cardinality(pending) < MaxPending
    /\ pending' = pending \cup {name}
    /\ event' = "pick"
    /\ UNCHANGED <<storeVars, currentSection, validationIssues, tempImportedConfig, diffModal,
                   summaryModal, tempFile, assigned, writeFailures, last, probe>>

\* reader.onload: parse by extension, validateImportedConfig, normalizeConfig into
\* tempImportedConfig, showDiffViewer; every failure ends in an alert
FileLoaded ==
  \E name \in pending :
    /\ pending' = pending \ {name}
    /\ IF Extension(name) \notin {"json", "yaml"} \/ ParseThrows(name)
          \/ ~validateImportedConfig(<<DocOf(name)>>).valid
       THEN /\ event' = "rejected"
            /\ UNCHANGED <<tempImportedConfig, tempFile, diffModal>>
       ELSE /\ tempImportedConfig' = <<"own", normalizeConfig(DocOf(name))>>
            /\ tempFile' = name
            /\ diffModal' = name
            /\ event' = "loaded"
    /\ UNCHANGED <<storeVars, currentSection, validationIssues, summaryModal, assigned,
                   writeFailures, last, probe>>

\* the read fails: the reader has no onerror handler, nothing happens
FileReadFailed ==
  \E name \in pending :
    /\ pending' = pending \ {name}
    /\ event' = "readFailed"
    /\ UNCHANGED <<storeVars, currentSection, validationIssues, tempImportedConfig, diffModal,
                   summaryModal, tempFile, assigned, writeFailures, last, probe>>

\* closeDiffBtn, cancelDiffBtn and the Escape key hide the diff modal and nothing else
CloseDiff ==
  /\ diffModal # ""
  /\ diffModal' = ""
  /\ event' = "closeDiff"
  /\ UNCHANGED <<storeVars, currentSection, validationIssues, pending, tempImportedConfig,
                 summaryModal, tempFile, assigned, writeFailures, last, probe>>

CancelDiff ==
  /\ diffModal # ""
  /\ diffModal' = ""
  /\ event' = "cancelDiff"
  /\ UNCHANGED <<storeVars, currentSection, validationIssues, pending, tempImportedConfig,
                 summaryModal, tempFile, assigned, writeFailures, last, probe>>

EscapeKey ==
  /\ diffModal # ""
  /\ diffModal' = ""
  /\ event' = "escape"
  /\ UNCHANGED <<storeVars, currentSection, validationIssues, pending, tempImportedConfig,
                 summaryModal, tempFile, assigned, writeFailures, last, probe>>

\* confirmDiffBtn: the diff modal is hidden and showSummaryModal shows the counts of
\* tempImportedConfig
ConfirmDiff ==
  /\ diffModal # ""
  /\ diffModal' = ""
  /\ summaryModal' = diffModal
  /\ event' = "confirmDiff"
  /\ UNCHANGED <<storeVars, currentSection, validationIssues, pending, tempImportedConfig,
                 tempFile, assigned, writeFailures, last, probe>>

\* closeSummaryModalBtn and cancelImportBtn hide the summary modal and nothing else
CloseSummary ==
  /\ summaryModal # ""
  /\ summaryModal' = ""
  /\ event' = "closeSummary"
  /\ UNCHANGED <<storeVars, currentSection, validationIssues, pending, tempImportedConfig,
                 diffModal, tempFile, assigned, writeFailures, last, probe>>

CancelSummary ==
  /\ summaryModal # ""
  /\ summaryModal' = ""
  /\ event' = "cancelSummary"
  /\ UNCHANGED <<storeVars, currentSection, validationIssues, pending, tempImportedConfig,
                 diffModal, tempFile, assigned, writeFailures, last, probe>>

\* finalizeImport: the config becomes tempImportedConfig, then rebuildGroupsMapping,
\* saveConfig and validateConfiguration; an exception of the rebuild ends the handler there
finalizeImport(cfg, blob, writeOk) ==
  LET Outcome(r) ==
        [threw |-> r.threw, config |-> cfg, groups |-> r.groups, idCounter |-> r.idCounter,
         storage |-> IF r.threw THEN blob ELSE saveConfig(cfg, blob, writeOk)]
  IN  Outcome(rebuildGroupsMapping(cfg.pdt))

ConfirmSummary ==
  /\ summaryModal # ""
  /\ \E writeOk \in WriteOutcomes :
    \E o \in {finalizeImport(TempConfig, storage, writeOk)} :
      /\ summaryModal' = ""
      /\ config' = o.config
      /\ groups' = o.groups
      /\ idCounter' = o.idCounter
      /\ storage' = o.storage
      /\ tempImportedConfig' = <<"config">>
      /\ assigned' = assigned \cup IdsOf(o.groups)
      /\ IF o.threw
         THEN /\ event' = "finalizeImportThrew"
              /\ UNCHANGED <<validationIssues, writeFailures>>
         ELSE /\ event' = "finalizeImport"
              /\ validationIssues' = validateConfiguration(o.groups)
              /\ writeFailures' = Failed(writeOk)
      /\ UNCHANGED <<templates, currentSection, pending, diffModal, tempFile, last, probe>>

InitImport == \E i \in 1 .. Len(StoredBlobs) : InitWith(StoredBlobs[i], "ranges", <<>>)

NextImport ==
  \/ PickFile
  \/ FileLoaded
  \/ FileReadFailed
  \/ CloseDiff
  \/ CancelDiff
  \/ EscapeKey
  \/ ConfirmDiff
  \/ CloseSummary
  \/ CancelSummary
  \/ ConfirmSummary

SpecImport == InitImport /\ [][NextImport]_vars


\* ------------------------------------------------ validation of chosen inputs
\* a bound of a ranges rule: absent (null) or an integer
Bound(n) == IF n < 0 THEN Null ELSE Num(n)

RangesRule(pg, pl, mg, ml) ==
  [DefaultRangesRule EXCEPT !.pdtGreaterThan = Bound(pg), !.pdtLessThanOrEqualTo = Bound(pl),
                            !.meanDelayGreaterThan = Bound(mg), !.meanDelayLessThanOrEqualTo = Bound(ml)]

\* a ranges group with two rules whose bounds the user typed
InitOverlap ==
  \E pg1, pl1, pg2, pl2 \in (0 - 1) .. MaxBound :
    \E mg1, ml1, mg2, ml2 \in (0 - 1) .. MaxDelay :
      InitWith(Null, "ranges",
               [rule1 |-> RangesRule(pg1, pl1, mg1, ml1), rule2 |-> RangesRule(pg2, pl2, mg2, ml2)])

\* doRangesRulesOverlap on the two rules, and validateConfiguration on their group
CheckOverlap ==
  /\ "overlap" \notin DOMAIN probe
  /\ probe' = probe @@
       [overlap |-> doRangesRulesOverlap(probe.rule1, probe.rule2),
        issues |-> validateConfiguration(
                     <<Group("ranges-0", "ranges", <<"New ", "Ranges">>, EmptyObj,
                             <<probe.rule1, probe.rule2>>, 0)>>).overlappingRules]
  /\ UNCHANGED <<storeVars, currentSection, validationIssues, importVars, assigned, writeFailures, last>>

SpecOverlap == InitOverlap /\ [][CheckOverlap]_vars

\* the keys and values a group's common parameters are drawn from
ParamPool == <<"deliveryMode", "verticalType", "strategy">>
ValuePool == <<Str("DELIVERY"), Str("PICKUP"), Num(5)>>

\* choice[k] = 0 leaves the k-th key out, choice[k] = v gives it the v-th value
ParamsOf(choice) ==
  [key \in {ParamPool[k] : k \in {j \in 1 .. MaxParams : choice[j] > 0}} |->
     ValuePool[choice[CHOOSE k \in 1 .. MaxParams : ParamPool[k] = key]]]

CheckedTypes == <<"ranges", "capping", "rounding">>

\* two groups, each of one of the three types, with chosen common parameters
InitDuplicates ==
  \E t1, t2 \in 1 .. Len(CheckedTypes) :
    \E c1, c2 \in [1 .. MaxParams -> 0 .. Len(ValuePool)] :
      InitWith(Null, CheckedTypes[t1],
               [group1 |-> Group(GroupId(CheckedTypes[t1], 0), CheckedTypes[t1], <<"A">>, ParamsOf(c1), <<>>, 0),
                group2 |-> Group(GroupId(CheckedTypes[t2], 1), CheckedTypes[t2], <<"B">>, ParamsOf(c2), <<>>, 0)])

\* validateConfiguration on the two groups
CheckDuplicates ==
  /\ "issues" \notin DOMAIN probe
  /\ probe' = probe @@ [issues |-> validateConfiguration(<<probe.group1, probe.group2>>).duplicateGroups]
  /\ UNCHANGED <<storeVars, currentSection, validationIssues, importVars, assigned, writeFailures, last>>

SpecDuplicates == InitDuplicates /\ [][CheckDuplicates]_vars

\* the formats of the rules of display-format groups
FormatPool == <<Str("DISPLAY_FORMAT_MINUTE_RANGE"), Str("DISPLAY_FORMAT_MINUTE_VALUE")>>

\* the values of a common parameter of a display-format group; "" is what
\* rebuildGroupsMapping stores for a condition the entries do not have
DisplayValuePool == <<Str(""), Str("DELIVERY"), Str("PICKUP")>>

\* choice[k] = 0 leaves the k-th key out, choice[k] = v gives it the v-th value
DisplayParamsOf(choice) ==
  [key \in {ParamPool[k] : k \in {j \in 1 .. MaxParams : choice[j] > 0}} |->
     DisplayValuePool[choice[CHOOSE k \in 1 .. MaxParams : ParamPool[k] = key]]]

\* the rules of a display-format group: one per entry of its bucket
FormatRules(formats) == [i \in 1 .. Len(formats) |-> [format |-> FormatPool[formats[i]], conditions |-> EmptyObj]]

FormatChoices == UNION {[1 .. n -> 1 .. Len(FormatPool)] : n \in 0 .. MaxFormats}

DisplayGroup(n, choice, formats) ==
  Group(GroupId("display-format", n), "display-format", <<"Display Format">>,
        DisplayParamsOf(choice), FormatRules(formats), 0)

\* one or two display-format groups with chosen common parameters and formats
InitFormats ==
  \E count \in 1 .. 2 :
    \E c1, c2 \in [1 .. MaxParams -> 0 .. Len(DisplayValuePool)] :
      \E f1, f2 \in FormatChoices :
        /\ count = 1 => (c2 = c1 /\ f2 = f1)
        /\ InitWith(Null, "display-format",
                    [formatGroups |-> IF count = 1 THEN <<DisplayGroup(0, c1, f1)>>
                                      ELSE <<DisplayGroup(0, c1, f1), DisplayGroup(1, c2, f2)>>])

\* validateConfiguration on the display-format groups
CheckFormats ==
  /\ "formatGroups" \in DOMAIN probe
  /\ "formatIssues" \notin DOMAIN probe
  /\ probe' = probe @@ [formatIssues |-> validateConfiguration(probe.formatGroups)]
  /\ UNCHANGED <<storeVars, currentSection, validationIssues, importVars, assigned, writeFailures, last>>

SpecFormats == InitFormats /\ [][CheckFormats]_vars

\* the two variants of a capping rule, as createDefaultRules and the rules table make them
CappingRulePool == <<DefaultSingleRule, DefaultCappingRangesRule>>

CappingChoices == UNION {[1 .. n -> 1 .. Len(CappingRulePool)] : n \in 0 .. MaxCappingRules}

CappingRules(choice) == [i \in 1 .. Len(choice) |-> CappingRulePool[choice[i]]]

\* two capping groups, each with up to MaxCappingRules rules of either variant
InitCapping ==
  \E r1, r2 \in CappingChoices :
    InitWith(Null, "capping",
             [cappingGroups |->
                <<Group(GroupId("capping", 0), "capping", <<"New ", "Capping">>,
                        [deliveryOption |-> Str("STANDARD")], CappingRules(r1), 0),
                  Group(GroupId("capping", 1), "capping", <<"New ", "Capping">>,
                        [deliveryOption |-> Str("PRIORITY")], CappingRules(r2), 0)>>])

\* validateConfiguration on the two capping groups
CheckCapping ==
  /\ "cappingGroups" \in DOMAIN probe
  /\ "cappingIssues" \notin DOMAIN probe
  /\ probe' = probe @@ [cappingIssues |-> validateConfiguration(probe.cappingGroups).overlappingRules]
  /\ UNCHANGED <<storeVars, currentSection, validationIssues, importVars, assigned, writeFailures, last>>

SpecCapping == InitCapping /\ [][CheckCapping]_vars

\* the conditions of a flat entry: absent, an object without keys, or one condition
ConditionPool ==
  <<EmptyObj,
    [delivery_mode |-> Str("PICKUP")],
    [marketplace |-> Bool(TRUE)],
    [vertical_types |-> Arr(<<Str("restaurants")>>)]>>

\* the titles a flat entry may carry in _title; 0 stands for an entry without _title
TitlePool == <<<<"Lunch">>, <<"Dinner">>>>

\* the payload of a flat entry of the kind, as updateConfigFromGroups writes it
Payload(kind) ==
  CASE kind = "display_format" -> [format |-> Str("DISPLAY_FORMAT_MINUTE_RANGE")]
    [] kind = "ranges" -> [lower_bound |-> Num(-10), upper_bound |-> Num(5)]
    [] kind = "capping" -> [single |-> [min |-> Num(5), max |-> Num(180)]]
    [] OTHER -> [strategy |-> Str("NEAREST_5")]

SectionKinds == <<"display_format", "ranges", "capping", "rounding">>

\* a flat entry: option = 0 leaves delivery_option out, cond = 0 leaves conditions out,
\* title = 0 leaves _title out
FlatEntry(kind, option, cond, title) ==
     Payload(kind)
  @@ Cond(option > 0 /\ kind \in {"ranges", "capping"}, "delivery_option", Str("STANDARD"))
  @@ Cond(cond > 0 /\ kind # "rounding", "conditions", ConditionPool[IF cond > 0 THEN cond ELSE 1])
  @@ Cond(title > 0, "_title", TitlePool[IF title > 0 THEN title ELSE 1])

\* a stored configuration with one section of one or two entries that differ in _title only
InitTitles ==
  \E k \in 1 .. Len(SectionKinds), option \in 0 .. 1, cond \in 0 .. Len(ConditionPool) :
    \E title1 \in 0 .. Len(TitlePool), title2 \in (0 - 1) .. Len(TitlePool) :
      InitWith(Null, "ranges",
               [stored |-> <<SectionKinds[k] :>
                               (<<FlatEntry(SectionKinds[k], option, cond, title1)>> \o
                                (IF title2 < 0 THEN <<>>
                                 ELSE <<FlatEntry(SectionKinds[k], option, cond, title2)>>))>>])

\* rebuildGroupsMapping on the stored sections
CheckTitles ==
  /\ "stored" \in DOMAIN probe
  /\ "rebuilt" \notin DOMAIN probe
  /\ probe' = probe @@ [rebuilt |-> rebuildGroupsMapping(probe.stored).groups]
  /\ UNCHANGED <<storeVars, currentSection, validationIssues, importVars, assigned, writeFailures, last>>

SpecTitles == InitTitles /\ [][CheckTitles]_vars

\* the grouping conditions of an entry and the values each may hold
KeyConditions == <<"delivery_mode", "marketplace", "vertical_types", "pdt_greater_than">>

KeyConditionValues ==
  [delivery_mode |-> <<Str("PICKUP")>>,
   marketplace |-> <<Bool(FALSE), Bool(TRUE)>>,
   vertical_types |-> <<Arr(<<Str("restaurants")>>)>>,
   pdt_greater_than |-> <<Num(10)>>]

\* choice[key] = 0 leaves the condition out, choice[key] = v gives it its v-th value
ConditionChoices == {choice \in [{KeyConditions[k] : k \in 1 .. Len(KeyConditions)} -> 0 .. 2] :
                       \A key \in DOMAIN choice : choice[key] <= Len(KeyConditionValues[key])}

ConditionsOf(choice) ==
  [key \in {k \in DOMAIN choice : choice[k] > 0} |-> KeyConditionValues[key][choice[key]]]

DeliveryOptionPool == <<Str("STANDARD"), Str("PRIORITY")>>

\* a flat entry of the kind: option = 0 leaves delivery_option out; object tells whether
\* the entry has a conditions object at all (an object of no keys when nothing is chosen)
KeyedEntry(kind, option, object, choice) ==
     Payload(kind)
  @@ Cond(option > 0, "delivery_option", DeliveryOptionPool[IF option > 0 THEN option ELSE 1])
  @@ Cond(object, "conditions", ConditionsOf(choice))

\* the paramKeys rebuildGroupsMapping passes to groupByCommonParams for the kind
StoreParamKeys(kind) == IF kind = "display_format" THEN DisplayFormatParamKeys ELSE RangesParamKeys

\* the commonParamKeys mergePdtSectionsByCommonParams passes for the kind
ImportParamKeys(kind) ==
  IF kind = "display_format" THEN DisplayFormatParamKeys
  ELSE RangesParamKeys \o <<"pdt_greater_than", "pdt_less_than_or_equal_to">>

\* the nested keys under which mergeEntriesByCommonParams files an entry: for ranges the
\* PDT pair, the key without the PDT parameters and the mean-delay pair; else one key
ImportBucket(kind, entry) ==
  IF kind = "ranges"
  THEN <<BoundPairKey(Get(CondOf(entry), "pdt_greater_than"), Get(CondOf(entry), "pdt_less_than_or_equal_to")),
         generateEntryKey(entry, RangesParamKeys),
         BoundPairKey(Get(CondOf(entry), "mean_delay_greater_than"),
                      Get(CondOf(entry), "mean_delay_less_than_or_equal_to"))>>
  ELSE <<generateEntryKey(entry, ImportParamKeys(kind))>>

GroupedKinds == <<"display_format", "ranges", "capping">>

\* two flat entries of one kind
InitKeys ==
  \E k \in 1 .. Len(GroupedKinds), option1, option2 \in 0 .. Len(DeliveryOptionPool) :
    \E object1, object2 \in BOOLEAN, choice1, choice2 \in ConditionChoices :
      /\ ~object1 => \A key \in DOMAIN choice1 : choice1[key] = 0
      /\ ~object2 => \A key \in DOMAIN choice2 : choice2[key] = 0
      /\ InitWith(Null, "ranges",
                  [kind |-> GroupedKinds[k],
                   entry1 |-> KeyedEntry(GroupedKinds[k], option1, object1, choice1),
                   entry2 |-> KeyedEntry(GroupedKinds[k], option2, object2, choice2)])

\* the key of each entry in groupByCommonParams, the groups rebuildGroupsMapping makes of
\* a section holding the two, and the bucket of each in the import merge
CheckKeys ==
  /\ "entry1" \in DOMAIN probe
  /\ "key1" \notin DOMAIN probe
  /\ probe' = probe @@
       [key1 |-> GroupingKey(probe.entry1, StoreParamKeys(probe.kind)),
        key2 |-> GroupingKey(probe.entry2, StoreParamKeys(probe.kind)),
        keyed |-> groupByCommonParams(<<probe.entry1, probe.entry2>>, StoreParamKeys(probe.kind)),
        rebuiltGroups |-> rebuildGroupsMapping(<<probe.kind :> <<probe.entry1, probe.entry2>>>>).groups,
        bucket1 |-> ImportBucket(probe.kind, probe.entry1),
        bucket2 |-> ImportBucket(probe.kind, probe.entry2)]
  /\ UNCHANGED <<storeVars, currentSection, validationIssues, importVars, assigned, writeFailures, last>>

SpecKeys == InitKeys /\ [][CheckKeys]_vars

\* the conditions among the paramKeys of the kind (delivery_option is a field of the entry)
GroupingConditions(kind) ==
  {StoreParamKeys(kind)[k] : k \in 1 .. Len(StoreParamKeys(kind))} \ {"delivery_option"}

\* a flat entry, and the same entry with one grouping condition it does not have set to false
InitAbsentFalse ==
  \E k \in 1 .. Len(GroupedKinds), option \in 0 .. Len(DeliveryOptionPool) :
    \E object \in BOOLEAN, choice \in ConditionChoices, falseKey \in GroupingConditions(GroupedKinds[k]) :
      /\ ~object => \A key \in DOMAIN choice : choice[key] = 0
      /\ falseKey \in DOMAIN choice => choice[falseKey] = 0
      /\ InitWith(Null, "ranges",
                  [kind |-> GroupedKinds[k],
                   falseKey |-> falseKey,
                   entry1 |-> KeyedEntry(GroupedKinds[k], option, object, choice),
                   entry2 |-> Put(KeyedEntry(GroupedKinds[k], option, object, choice), "conditions",
                                  Put(ConditionsOf(choice), falseKey, Bool(FALSE)))])

\* the key of each entry in groupByCommonParams and the groups rebuildGroupsMapping makes
\* of a section holding the two
CheckAbsentFalse ==
  /\ "falseKey" \in DOMAIN probe
  /\ "key1" \notin DOMAIN probe
  /\ probe' = probe @@
       [key1 |-> GroupingKey(probe.entry1, StoreParamKeys(probe.kind)),
        key2 |-> GroupingKey(probe.entry2, StoreParamKeys(probe.kind)),
        rebuiltGroups |-> rebuildGroupsMapping(<<probe.kind :> <<probe.entry1, probe.entry2>>>>).groups]
  /\ UNCHANGED <<storeVars, currentSection, validationIssues, importVars, assigned, writeFailures, last>>

SpecAbsentFalse == InitAbsentFalse /\ [][CheckAbsentFalse]_vars

\* a ranges entry of an imported document
ImportedRanges(option, conditions) ==
  WithConditions([delivery_option |-> Str(option), lower_bound |-> Num(-10), upper_bound |-> Num(5)],
                 conditions)

PdtWindow == [pdt_greater_than |-> Num(13), pdt_less_than_or_equal_to |-> Num(18)]

\* the sections an imported document is made of: one entry each
SectionPool ==
  <<[display_format |-> <<[format |-> Str("DISPLAY_FORMAT_MINUTE_RANGE")]>>],
    [display_format |-> <<[format |-> Str("DISPLAY_FORMAT_MINUTE_VALUE"),
                           conditions |-> [delivery_mode |-> Str("PICKUP")]]>>],
    [display_format |-> <<[format |-> Str("DISPLAY_FORMAT_MINUTE_RANGE"),
                           conditions |-> [delivery_mode |-> Str("PICKUP")], _title |-> <<"Lunch">>]>>],
    [display_format |-> <<[format |-> Str("DISPLAY_FORMAT_MINUTE_VALUE"), conditions |-> EmptyObj]>>],
    [ranges |-> <<ImportedRanges("STANDARD", EmptyObj)>>],
    [ranges |-> <<ImportedRanges("STANDARD", PdtWindow)>>],
    [ranges |-> <<ImportedRanges("STANDARD", PdtWindow @@ [mean_delay_greater_than |-> Num(4)])>>],
    [ranges |-> <<ImportedRanges("PRIORITY", PdtWindow)>>],
    [ranges |-> <<ImportedRanges("STANDARD", EmptyObj) @@ [_title |-> <<"Lunch">>]>>],
    [capping |-> <<[delivery_option |-> Str("STANDARD"), single |-> [min |-> Num(5), max |-> Num(180)]]>>],
    [capping |-> <<[delivery_option |-> Str("STANDARD"), single |-> [min |-> Num(5), max |-> Num(180)],
                    conditions |-> [pdt_greater_than |-> Num(10)]]>>],
    [capping |-> <<[delivery_option |-> Str("PRIORITY"), single |-> [min |-> Num(5), max |-> Num(180)]]>>],
    [capping |-> <<[delivery_option |-> Str("STANDARD"), single |-> [min |-> Num(10), max |-> Num(60)],
                    _title |-> <<"Dinner">>]>>],
    [rounding |-> <<[strategy |-> Str("NEAREST_5")]>>],
    [rounding |-> <<[strategy |-> Str("FLOOR_5"), _title |-> <<"Lunch">>]>>]>>

\* the pdt array of an imported document: up to MaxSections sections
InitMerge ==
  \E n \in 1 .. MaxSections :
    \E pick \in [1 .. n -> 1 .. Len(SectionPool)] :
      InitWith(Null, "ranges", [sections |-> [i \in 1 .. n |-> SectionPool[pick[i]]]])

\* mergePdtSectionsByCommonParams on the sections, and once more on what it returned
CheckMerge ==
  /\ "sections" \in DOMAIN probe
  /\ "once" \notin DOMAIN probe
  /\ \E merged \in {mergePdtSectionsByCommonParams(probe.sections)} :
       probe' = probe @@ [once |-> merged, twice |-> mergePdtSectionsByCommonParams(merged)]
  /\ UNCHANGED <<storeVars, currentSection, validationIssues, importVars, assigned, writeFailures, last>>

SpecMerge == InitMerge /\ [][CheckMerge]_vars

\* ------------------------------------------------------------- YamlHandler
\* JSON.parse(JSON.stringify(config)).pdt : the clone that generateYaml works on
JsonClone(pdt) ==
  [s \in 1 .. Len(pdt) |->
     [kind \in DOMAIN pdt[s] |-> [i \in 1 .. Len(pdt[s][kind]) |-> JsonEntry(pdt[s][kind][i])]]]

\* typeof v === 'string' ? v === 'true' : v   (the marketplace condition)
StringToBoolean(v) == IF v[1] = "str" THEN Bool(v[2] = "true") ELSE v

\* typeof v !== 'number' ? v || 0 : v   (typeof NaN is 'number')
NumberOrZero(v) == IF v[1] \in {"num", "NaN"} THEN v ELSE OrElse(v, Num(0))

EnsureBounds(pair) ==
  Put(Put(pair, "lower_bound", NumberOrZero(Get(pair, "lower_bound"))),
      "upper_bound", NumberOrZero(Get(pair, "upper_bound")))

processEntryForYaml(kind, entry) ==
  IF kind \in {"ranges", "display_format"}
    THEN IF "conditions" \in DOMAIN entry /\ "marketplace" \in DOMAIN entry.conditions
         THEN [entry EXCEPT !.conditions.marketplace = StringToBoolean(@)]
         ELSE entry
  ELSE IF kind = "capping" /\ "ranges" \in DOMAIN entry
    THEN [entry EXCEPT !.ranges = [min |-> EnsureBounds(@.min), max |-> EnsureBounds(@.max)]]
  ELSE entry

processConfigForYaml(pdt) ==
  [s \in 1 .. Len(pdt) |->
     [kind \in DOMAIN pdt[s] |->
        [i \in 1 .. Len(pdt[s][kind]) |-> processEntryForYaml(kind, pdt[s][kind][i])]]]

\* `${o[k]}` : the text a template literal writes for a field
TextOf(o, k) == ToStr(Get(o, k))

\* key.startsWith('_') for the keys that occur
IsInternalKey(key) == key \in {"_title", "_groupId"}

\* the lines under 'conditions:' : 'key: value', or 'key:' and one '- item' line per element
ConditionLines(conditions) ==
  [key \in {k \in DOMAIN conditions : ~IsInternalKey(k)} |->
     IF conditions[key][1] = "arr"
     THEN [items |-> [i \in 1 .. Len(conditions[key][2]) |-> ToStr(conditions[key][2][i])]]
     ELSE [scalar |-> ToStr(conditions[key])]]

WithConditionLines(lines, entry) ==
  IF "conditions" \in DOMAIN entry
  THEN lines @@ ("conditions" :> ConditionLines(entry.conditions))
  ELSE lines

\* the part of a description that one pair of bounds adds ("<=" stands for the
\* less-than-or-equal sign of the source)
DescribeBounds(greaterThan, lessThanOrEqualTo) ==
  IF greaterThan # Undefined /\ lessThanOrEqualTo # Undefined
    THEN <<ToStr(greaterThan), "-", ToStr(lessThanOrEqualTo)>>
  ELSE IF greaterThan # Undefined THEN <<">", ToStr(greaterThan)>>
  ELSE <<"<=", ToStr(lessThanOrEqualTo)>>

generateRangeDescription(range) ==
  LET c == CondOf(range)
      pdtGt == Get(c, "pdt_greater_than")
      pdtLe == Get(c, "pdt_less_than_or_equal_to")
      mdGt == Get(c, "mean_delay_greater_than")
      mdLe == Get(c, "mean_delay_less_than_or_equal_to")
      pdt == IF pdtGt # Undefined \/ pdtLe # Undefined
             THEN <<"PDT ">> \o DescribeBounds(pdtGt, pdtLe) ELSE <<>>
      md == IF mdGt # Undefined \/ mdLe # Undefined
            THEN <<(IF pdt # <<>> THEN ", Mean Delay " ELSE "Mean Delay ")>> \o DescribeBounds(mdGt, mdLe)
            ELSE <<>>
  IN  IF pdt \o md = <<>> THEN <<"Default">> ELSE pdt \o md

\* the lines of one list item; a block is one '- kind:' list with its comment line
DisplayFormatLines(entry) == WithConditionLines([format |-> TextOf(entry, "format")], entry)

RangeLines(range) ==
  WithConditionLines([delivery_option |-> TextOf(range, "delivery_option"),
                      lower_bound |-> TextOf(range, "lower_bound"),
                      upper_bound |-> TextOf(range, "upper_bound")], range)

BoundLines(pair) == [lower_bound |-> TextOf(pair, "lower_bound"), upper_bound |-> TextOf(pair, "upper_bound")]

CappingLines(entry) ==
     WithConditionLines([delivery_option |-> TextOf(entry, "delivery_option")], entry)
  @@ Cond("single" \in DOMAIN entry, "single",
          [min |-> TextOf(entry.single, "min"), max |-> TextOf(entry.single, "max")])
  @@ Cond("ranges" \in DOMAIN entry, "ranges",
          [min |-> BoundLines(entry.ranges.min), max |-> BoundLines(entry.ranges.max)])

RoundingLines(entry) == [strategy |-> TextOf(entry, "strategy")]

Block(kind, comment, items) == [kind |-> kind, comment |-> comment, items |-> items]

RangeBlocks(ranges) ==
  LET grouped == Buckets(ranges, [i \in 1 .. Len(ranges) |->
                    IF TitleOf(ranges[i]) # <<>> THEN TitleOf(ranges[i])
                    ELSE generateRangeDescription(ranges[i])])
  IN  [b \in 1 .. Len(grouped) |->
         Block("ranges", grouped[b].key,
               [i \in 1 .. Len(grouped[b].entries) |-> RangeLines(grouped[b].entries[i])])]

SectionBlocks(section) ==
  IF "display_format" \in DOMAIN section
    THEN [i \in 1 .. Len(section.display_format) |->
            Block("display_format", TitleOf(section.display_format[i]),
                  <<DisplayFormatLines(section.display_format[i])>>)]
  ELSE IF "ranges" \in DOMAIN section THEN RangeBlocks(section.ranges)
  ELSE IF "capping" \in DOMAIN section
    THEN [i \in 1 .. Len(section.capping) |->
            Block("capping", TitleOf(section.capping[i]), <<CappingLines(section.capping[i])>>)]
  ELSE IF "rounding" \in DOMAIN section
    THEN [i \in 1 .. Len(section.rounding) |->
            Block("rounding", TitleOf(section.rounding[i]), <<RoundingLines(section.rounding[i])>>)]
  ELSE <<>>

\* the blocks under 'pdt:' of the generated text
formatConfigWithComments(pdt) == ConcatAll([s \in 1 .. Len(pdt) |-> SectionBlocks(pdt[s])])

generateYaml(cfg) == formatConfigWithComments(processConfigForYaml(JsonClone(cfg.pdt)))

\* the integers that the texts of the model can spell
YamlIntegers == -10 .. 180

\* jsyaml.load of a plain scalar (core schema): null, booleans and integers are
\* recognised by their spelling, every other text is a string
ResolveScalar(text) ==
  CASE text \in {"", "~", "null", "Null", "NULL"} -> Null
    [] text \in {"true", "True", "TRUE"} -> Bool(TRUE)
    [] text \in {"false", "False", "FALSE"} -> Bool(FALSE)
    [] text \in {".nan", ".NaN", ".NAN"} -> <<"NaN">>
    [] \E n \in YamlIntegers : ToString(n) = text -> Num(CHOOSE n \in YamlIntegers : ToString(n) = text)
    [] OTHER -> Str(text)

\* a key without lines under it loads as null
LoadConditions(lines) ==
  IF DOMAIN lines = {} THEN NullMapping
  ELSE [key \in DOMAIN lines |->
          IF "items" \in DOMAIN lines[key]
          THEN (IF lines[key].items = <<>> THEN Null
                ELSE Arr([i \in 1 .. Len(lines[key].items) |-> ResolveScalar(lines[key].items[i])]))
          ELSE ResolveScalar(lines[key].scalar)]

LoadScalars(lines) == [key \in DOMAIN lines |-> ResolveScalar(lines[key])]

LoadItem(lines) ==
  [key \in DOMAIN lines |->
     CASE key = "conditions" -> LoadConditions(lines[key])
       [] key = "single" -> LoadScalars(lines[key])
       [] key = "ranges" -> [min |-> LoadScalars(lines[key].min), max |-> LoadScalars(lines[key].max)]
       [] OTHER -> ResolveScalar(lines[key])]

\* jsyaml.load(text).pdt : one section per block
parseYaml(blocks) ==
  [b \in 1 .. Len(blocks) |->
     blocks[b].kind :> [i \in 1 .. Len(blocks[b].items) |-> LoadItem(blocks[b].items[i])]]

\* the logical content of one entry: no _title, and no conditions key when there is no
\* condition (the key missing, null or {})
LogicalEntry(entry) ==
  LET kept == (DOMAIN entry) \ {"_title"}
      bare == "conditions" \in kept /\ (entry.conditions = EmptyObj \/ entry.conditions = NullMapping)
  IN  [k \in (IF bare THEN kept \ {"conditions"} ELSE kept) |-> entry[k]]

\* the logical entries of one kind, over all sections of that kind
LogicalEntries(pdt, kind) ==
  ConcatAll([s \in 1 .. Len(pdt) |->
     IF kind \in DOMAIN pdt[s]
     THEN [i \in 1 .. Len(pdt[s][kind]) |-> LogicalEntry(pdt[s][kind][i])]
     ELSE <<>>])

Occurrences(s, x) == Cardinality({i \in 1 .. Len(s) : s[i] = x})

SameMultiset(s1, s2) ==
  /\ Len(s1) = Len(s2)
  /\ \A i \in 1 .. Len(s1) : Occurrences(s1, s1[i]) = Occurrences(s2, s1[i])

ConfigKinds == {"display_format", "ranges", "capping", "rounding"}

\* a capping number input hands parseInt(e.target.value) to updateRule
NumberTexts == {Str(""), Str("7")}

\* the number cell of a capping rule that the model edits
NumberCell(rule) == IF IsSingleRule(rule) THEN "min" ELSE "minLowerBound"

CallUpdateRuleNumber ==
  \E writeOk \in WriteOutcomes, id \in IdsOf(groups), text \in NumberTexts :
    \E index \in 0 .. (Len(groups[IndexOf(groups, id)].rules) - 1) :
      LET rule == groups[IndexOf(groups, id)].rules[index + 1]
          res == updateRule(groups, idCounter, templates, id, index, NumberCell(rule), ParseInt(text))
      IN  /\ groups[IndexOf(groups, id)].type = "capping"
          /\ Mutate(res, writeOk)
          /\ last' = Call(TRUE, res.ret)
          /\ UNCHANGED <<currentSection, validationIssues, importVars, probe>>

NextYaml ==
  \/ CallAddGroup
  \/ CallDeleteGroup
  \/ CallUpdateGroupCommonParam
  \/ CallAddRule
  \/ CallUpdateRule
  \/ CallUpdateRuleNumber
  \/ CallDeleteRule

SpecYaml == InitStore /\ [][NextYaml]_vars

\* ------------------------------------- ExportImportManager: the import gate
\* the metadata keys a raw document may carry
MetadataKeys == {"config_format_version", "variant", "platform", "country_code"}

Metadata(keys) ==
  [k \in keys |->
     CASE k = "config_format_version" -> Str("1")
       [] k = "variant" -> Str("v1")
       [] k = "platform" -> Str("talabat")
       [] OTHER -> Str("ae")]

\* what a raw document can hold under pdt: nothing, a text, a list without elements, a
\* list of objects without a section key, and lists with a section, among them entries
\* whose marketplace is the text "true" and whose vertical_types is one text
PdtShapes ==
  {"missing", "text", "empty", "unknown", "ranges", "unknownAndRounding", "textMarketplace", "scalarVertical"}

PdtOf(shape) ==
  CASE shape = "text" -> [pdt |-> Str("none")]
    [] shape = "empty" -> [pdt |-> Arr(<<>>)]
    [] shape = "unknown" -> [pdt |-> Arr(<<[sections |-> <<>>]>>)]
    [] shape = "ranges" -> [pdt |-> Arr(<<[ranges |-> <<RawRanges(5, 10, EmptyObj)>>]>>)]
    [] shape = "textMarketplace" ->
         [pdt |-> Arr(<<[ranges |-> <<RawRanges(5, 10, [marketplace |-> Str("true")])>>]>>)]
    [] shape = "scalarVertical" ->
         [pdt |-> Arr(<<[display_format |-> <<[format |-> Str("DISPLAY_FORMAT_MINUTE_VALUE"),
                                               conditions |-> [marketplace |-> Bool(FALSE)]]>>],
                        [ranges |-> <<RawRanges(5, 10, [vertical_types |-> Str("restaurants")])>>]>>)]
    [] shape = "unknownAndRounding" ->
         [pdt |-> Arr(<<[sections |-> <<>>], [rounding |-> <<[strategy |-> Str("NEAREST_5")]>>]>>)]
    [] OTHER -> EmptyObj

\* the parsed file: nothing (the text parsed to null) or one document
InitGate ==
  \E parsed \in {<<>>} \cup {<<Metadata(keys) @@ PdtOf(shape)>> : keys \in SUBSET MetadataKeys, shape \in PdtShapes} :
    InitWith(Null, "ranges", [parsed |-> parsed])

\* handleFileImport from the parsed text on: the gate, then normalizeConfig when it passes
CheckGate ==
  /\ "parsed" \in DOMAIN probe
  /\ "gate" \notin DOMAIN probe
  /\ \E gate \in {validateImportedConfig(probe.parsed)} :
       probe' = probe @@ [gate |-> gate,
                          temp |-> IF gate.valid THEN <<normalizeConfig(probe.parsed[1])>> ELSE <<>>]
  /\ UNCHANGED <<storeVars, currentSection, validationIssues, importVars, assigned, writeFailures, last>>

SpecGate == InitGate /\ [][CheckGate]_vars

\* ------------------------------------------------- ConfigManager: startup
StoredMetadataKeys == {"configFormatVersion", "variant", "platform", "countryCode"}

\* a stored pdt whose first section builds a group and whose second section makes
\* groupByCommonParams throw (vertical_types is a text)
ThrowingPdt ==
  <<[display_format |-> <<[format |-> Str("DISPLAY_FORMAT_MINUTE_VALUE"), _title |-> <<"Lunch">>]>>],
    [ranges |-> <<[delivery_option |-> Str("STANDARD"), lower_bound |-> Num(5), upper_bound |-> Num(10),
                   conditions |-> [vertical_types |-> Str("restaurants")]]>>]>>

StoredPdtShapes == {"missing", "empty", "saved", "throwing"}

StoredPdt(shape) ==
  CASE shape = "empty" -> [pdt |-> <<>>]
    [] shape = "saved" -> [pdt |-> SavedConfig.pdt]
    [] shape = "throwing" -> [pdt |-> ThrowingPdt]
    [] OTHER -> EmptyObj

\* what localStorage can hold under pdtConfig: nothing, a text that is not JSON, the JSON
\* text null, and JSON objects with and without a pdt list
StartupBlobs ==
  {Null, <<"corrupt">>, <<"json", NullMapping>>}
    \cup {<<"json", [k \in keys |-> DefaultConfig[k]] @@ StoredPdt(shape)>> :
            keys \in SUBSET StoredMetadataKeys, shape \in StoredPdtShapes}

\* the fields of a ConfigManager as its constructor sets them, before initializeConfig
InitStartup ==
  \E blob \in StartupBlobs :
    /\ config = DefaultConfig
    /\ groups = <<>>
    /\ idCounter = 0
    /\ storage = blob
    /\ templates = Templates
    /\ currentSection = "display-format"
    /\ validationIssues = NoIssues
    /\ pending = {}
    /\ tempImportedConfig = <<>>
    /\ diffModal = ""
    /\ summaryModal = ""
    /\ tempFile = ""
    /\ assigned = {}
    /\ writeFailures = 0
    /\ last = NoCall
    /\ event = ""
    /\ probe = [started |-> FALSE]

\* the call of initializeConfig when the page starts
Startup ==
  /\ ~probe.started
  /\ \E s \in {initializeConfig(storage)} :
       /\ config' = s.config
       /\ groups' = s.groups
       /\ idCounter' = s.idCounter
       /\ assigned' = IdsOf(s.groups)
  /\ probe' = [started |-> TRUE]
  /\ UNCHANGED <<storage, templates, currentSection, validationIssues, importVars, writeFailures, last>>

SpecStartup == InitStartup /\ [][Startup]_vars

\* ------------------------------------------- the type select of a capping rule
CappingTypes == {Str("single"), Str("ranges")}

\* the type select of a capping row: updateRule(groupId, ruleIndex, 'type', value); the
\* defaults that the handler would add for 'ranges' are all set by updateRule itself.
\* probe remembers the call and the rule it found
CallChangeType ==
  \E writeOk \in WriteOutcomes, id \in IdsOf(groups), value \in CappingTypes :
    \E index \in 0 .. (Len(groups[IndexOf(groups, id)].rules) - 1) :
      LET res == updateRule(groups, idCounter, templates, id, index, "type", value)
      IN  /\ Mutate(res, writeOk)
          /\ last' = Call(TRUE, res.ret)
          /\ probe' = [groupId |-> id, ruleIndex |-> index, value |-> value,
                       before |-> groups[IndexOf(groups, id)].rules[index + 1]]
          /\ UNCHANGED <<currentSection, validationIssues, importVars>>

\* one number field of each variant
CappingNumberFields == {"min", "minLowerBound"}

\* updateRule(groupId, ruleIndex, field, 7) for a number field of either variant, whatever
\* the type of the rule is: the ConfigManager API takes any field name
CallUpdateRuleField ==
  \E writeOk \in WriteOutcomes, id \in IdsOf(groups), field \in CappingNumberFields :
    \E index \in 0 .. (Len(groups[IndexOf(groups, id)].rules) - 1) :
      LET res == updateRule(groups, idCounter, templates, id, index, field, Num(7))
      IN  /\ Mutate(res, writeOk)
          /\ last' = Call(TRUE, res.ret)
          /\ UNCHANGED <<currentSection, validationIssues, importVars, probe>>

InitCappingType == InitWith(Null, "capping", <<>>)

NextCappingType ==
  \/ CallAddGroup
  \/ CallCloneGroup
  \/ CallDeleteGroup
  \/ CallAddRule
  \/ CallChangeType
  \/ CallUpdateRuleField
  \/ CallDeleteRule

SpecCappingType == InitCappingType /\ [][NextCappingType]_vars

\* -------------------------------------- ConfigManager: the order of ranges rules
\* a stored ranges entry with a delivery mode and the given bounds; -1 stands for a
\* bound that the entry does not have
SortEntry(pdtGt, pdtLe, mdGt, lower) ==
  [delivery_option |-> Str("STANDARD"), lower_bound |-> Num(lower), upper_bound |-> Num(lower + 5),
   conditions |->
        [delivery_mode |-> Str("DELIVERY")]
     @@ Cond(pdtGt >= 0, "pdt_greater_than", Num(pdtGt))
     @@ Cond(pdtLe >= 0, "pdt_less_than_or_equal_to", Num(pdtLe))
     @@ Cond(mdGt >= 0, "mean_delay_greater_than", Num(mdGt))]

SortEntries ==
  {SortEntry(pdtGt, pdtLe, mdGt, lower) :
     pdtGt \in (0 - 1) .. MaxDelay, pdtLe \in {0 - 1, MaxBound}, mdGt \in {0 - 1, 0}, lower \in 0 .. MaxDelay}

\* the stored config holds one ranges section with two entries of one group
InitSort ==
  \E e1, e2 \in SortEntries : InitWith(Null, "ranges", [entries |-> <<e1, e2>>])

\* rebuildGroupsMapping of that section
CheckSort ==
  /\ "entries" \in DOMAIN probe
  /\ "rebuilt" \notin DOMAIN probe
  /\ probe' = probe @@ [rebuilt |-> rebuildGroupsMapping(<<[ranges |-> probe.entries]>>).groups]
  /\ UNCHANGED <<storeVars, currentSection, validationIssues, importVars, assigned, writeFailures, last>>

SpecSort == InitSort /\ [][CheckSort]_vars

\* ------------------------------------ ExportImportManager: the diff viewer
\* marketplace.toLowerCase() === 'true' for the spellings that occur
IsTrueText(text) == text \in {"true", "True", "TRUE"}

normalizeConditions(conditions) ==
  [k \in DOMAIN conditions |->
     IF k = "marketplace" /\ conditions[k][1] = "str" THEN Bool(IsTrueText(conditions[k][2]))
     ELSE IF k = "vertical_types" /\ Truthy(conditions[k]) /\ conditions[k][1] # "arr"
       THEN Arr(<<conditions[k]>>)
     ELSE conditions[k]]

ExtractDisplayFormat(format) ==
  [format |-> Get(format, "format"), conditions |-> normalizeConditions(CondOf(format))]

ExtractRange(range) ==
  [delivery_option |-> OrElse(Get(range, "delivery_option"), Str("STANDARD")),
   lower_bound |-> Get(range, "lower_bound"),
   upper_bound |-> Get(range, "upper_bound"),
   conditions |-> normalizeConditions(CondOf(range))]

ExtractCapping(cap) ==
     [delivery_option |-> OrElse(Get(cap, "delivery_option"), Str("STANDARD")),
      conditions |-> normalizeConditions(CondOf(cap))]
  @@ Cond("single" \in DOMAIN cap, "single",
          [min |-> Get(cap.single, "min"), max |-> Get(cap.single, "max")])
  @@ Cond("ranges" \in DOMAIN cap, "ranges",
          [min |-> [lower_bound |-> Get(cap.ranges.min, "lower_bound"),
                    upper_bound |-> Get(cap.ranges.min, "upper_bound")],
           max |-> [lower_bound |-> Get(cap.ranges.max, "lower_bound"),
                    upper_bound |-> Get(cap.ranges.max, "upper_bound")]])

ExtractRounding(round) == [strategy |-> OrElse(Get(round, "strategy"), Str("NEAREST_5"))]

\* extractEntries: the entries of each kind, over all sections, in order
extractEntries(pdt) ==
  LET Of(kind) == ConcatAll([s \in 1 .. Len(pdt) |-> IF kind \in DOMAIN pdt[s] THEN pdt[s][kind] ELSE <<>>])
      df == Of("display_format")
      rg == Of("ranges")
      cp == Of("capping")
      rd == Of("rounding")
  IN  [display_format |-> [i \in 1 .. Len(df) |-> ExtractDisplayFormat(df[i])],
       ranges |-> [i \in 1 .. Len(rg) |-> ExtractRange(rg[i])],
       capping |-> [i \in 1 .. Len(cp) |-> ExtractCapping(cp[i])],
       rounding |-> [i \in 1 .. Len(rd) |-> ExtractRounding(rd[i])]]

\* val === undefined || val === null
IsMissing(v) == v = Undefined \/ v = Null

NumericConditionFields ==
  <<"pdt_less_than_or_equal_to", "pdt_greater_than", "mean_delay_less_than_or_equal_to", "mean_delay_greater_than">>

\* the vertical_types list, [] when the value is falsy
VerticalList(conditions) ==
  IF Truthy(Get(conditions, "vertical_types")) THEN conditions.vertical_types[2] ELSE <<>>

\* areConditionsEqual of two condition objects
areConditionsEqual(conditions1, conditions2) ==
  LET m1 == Get(conditions1, "marketplace")
      m2 == Get(conditions2, "marketplace")
  IN  /\ (m1 # Undefined /\ m2 # Undefined) =>
            (IF m1[1] = "str" THEN Bool(IsTrueText(m1[2])) ELSE m1)
              = (IF m2[1] = "str" THEN Bool(IsTrueText(m2[2])) ELSE m2)
      /\ Get(conditions1, "delivery_mode") = Get(conditions2, "delivery_mode")
      /\ \A f \in 1 .. Len(NumericConditionFields) :
           LET val1 == Get(conditions1, NumericConditionFields[f])
               val2 == Get(conditions2, NumericConditionFields[f])
           IN  \/ IsMissing(val1) /\ IsMissing(val2)
               \/ ~IsMissing(val1) /\ ~IsMissing(val2)
                    /\ ParseInt(val1) # <<"NaN">> /\ ParseInt(val1) = ParseInt(val2)
      /\ VerticalList(conditions1) = VerticalList(conditions2)

areCappingDetailsEqual(cap1, cap2) ==
  /\ ("single" \in DOMAIN cap1) = ("single" \in DOMAIN cap2)
  /\ ("single" \in DOMAIN cap1 /\ "single" \in DOMAIN cap2) =>
       cap1.single.min = cap2.single.min /\ cap1.single.max = cap2.single.max
  /\ ("ranges" \in DOMAIN cap1) = ("ranges" \in DOMAIN cap2)
  /\ ("ranges" \in DOMAIN cap1 /\ "ranges" \in DOMAIN cap2) =>
       /\ cap1.ranges.min.lower_bound = cap2.ranges.min.lower_bound
       /\ cap1.ranges.min.upper_bound = cap2.ranges.min.upper_bound
       /\ cap1.ranges.max.lower_bound = cap2.ranges.max.lower_bound
       /\ cap1.ranges.max.upper_bound = cap2.ranges.max.upper_bound

\* the equality function that createHighlightMaps passes for a section kind
EntriesEqual(kind, a, b) ==
  CASE kind = "display_format" -> a.format = b.format /\ areConditionsEqual(a.conditions, b.conditions)
    [] kind = "ranges" ->
         /\ a.delivery_option = b.delivery_option
         /\ a.lower_bound = b.lower_bound
         /\ a.upper_bound = b.upper_bound
         /\ areConditionsEqual(a.conditions, b.conditions)
    [] kind = "capping" ->
         /\ a.delivery_option = b.delivery_option
         /\ areConditionsEqual(a.conditions, b.conditions)
         /\ areCappingDetailsEqual(a, b)
    [] OTHER -> a.strategy = b.strategy

\* findIndex: the first interpreted entry that equals the original entry, 0 when none does
FirstEqual(kind, originalEntry, interpretedArray) ==
  IF \E j \in 1 .. Len(interpretedArray) : EntriesEqual(kind, originalEntry, interpretedArray[j])
  THEN CHOOSE j \in 1 .. Len(interpretedArray) :
         /\ EntriesEqual(kind, originalEntry, interpretedArray[j])
         /\ \A k \in 1 .. (j - 1) : ~EntriesEqual(kind, originalEntry, interpretedArray[k])
  ELSE 0

\* compareEntryArrays: every entry starts unmatched; an original entry that has an equal
\* interpreted entry marks itself and the first such entry as matched
compareEntryArrays(originalArray, interpretedArray, kind) ==
  [original |-> [i \in 1 .. Len(originalArray) |->
                   IF FirstEqual(kind, originalArray[i], interpretedArray) # 0
                   THEN "matched" ELSE "unmatched"],
   interpreted |-> [j \in 1 .. Len(interpretedArray) |->
                      IF \E i \in 1 .. Len(originalArray) :
                           FirstEqual(kind, originalArray[i], interpretedArray) = j
                      THEN "matched" ELSE "unmatched"]]

createHighlightMaps(originalEntries, interpretedEntries) ==
  [kind \in ConfigKinds |-> compareEntryArrays(originalEntries[kind], interpretedEntries[kind], kind)]

\* the entries that the two sides of the diff can hold, by kind
DiffConditions ==
  {EmptyObj, [marketplace |-> Bool(TRUE)], [marketplace |-> Str("true")], [pdt_greater_than |-> Num(0)]}

DiffEntries(kind) ==
  CASE kind = "display_format" ->
         {[format |-> Str(f), conditions |-> c] :
            f \in {"DISPLAY_FORMAT_MINUTE_RANGE", "DISPLAY_FORMAT_MINUTE_VALUE"},
            c \in {EmptyObj, [marketplace |-> Bool(TRUE)]}}
    [] kind = "ranges" -> {RawRanges(5, 10, c) : c \in DiffConditions}
    [] kind = "capping" ->
         {[delivery_option |-> Str("STANDARD"), single |-> [min |-> Num(5), max |-> Num(180)]],
          [delivery_option |-> Str("STANDARD"), single |-> [min |-> Num(6), max |-> Num(180)]],
          [delivery_option |-> Str("STANDARD"),
           ranges |-> [min |-> [lower_bound |-> Num(10), upper_bound |-> Num(20)],
                       max |-> [lower_bound |-> Num(160), upper_bound |-> Num(180)]]]}
    [] OTHER -> {[strategy |-> Str("NEAREST_5")], [strategy |-> Str("FLOOR_5")]}

\* one or two entries of a kind
DiffSides(kind) ==
  {<<e>> : e \in DiffEntries(kind)} \cup {<<e1, e2>> : e1 \in DiffEntries(kind), e2 \in DiffEntries(kind)}

\* the document of the file and the merged config, one section of the same kind each
InitDiff ==
  \E kind \in ConfigKinds : \E original \in DiffSides(kind), merged \in DiffSides(kind) :
    InitWith(Null, "ranges", [kind |-> kind, original |-> <<kind :> original>>, merged |-> <<kind :> merged>>])

\* highlightYamlDifferences from the two parsed documents on
CheckDiff ==
  /\ "original" \in DOMAIN probe
  /\ "maps" \notin DOMAIN probe
  /\ \E originalEntries \in {extractEntries(probe.original)}, mergedEntries \in {extractEntries(probe.merged)} :
       probe' = probe @@ [originalEntries |-> originalEntries, mergedEntries |-> mergedEntries,
                          maps |-> createHighlightMaps(originalEntries, mergedEntries)]
  /\ UNCHANGED <<storeVars, currentSection, validationIssues, importVars, assigned, writeFailures, last>>

SpecDiff == InitDiff /\ [][CheckDiff]_vars

\* ----------------------------------------------- the title input of a group
\* what the user can type into the title of a group
FreeTitles == {<<"Lunch">>, <<"Copy of ", "Lunch">>}

\* the cell values of a rules table that matter to the title: for ranges the upper PDT
\* bound on either side of the 100 that updateGroupTitle compares with
BoundInputs(groupType) ==
  IF groupType = "ranges"
  THEN {<<"pdtLessThanOrEqualTo", Num(10)>>, <<"pdtLessThanOrEqualTo", Num(100)>>}
  ELSE RuleInputs(groupType)

CallUpdateRuleBound ==
  \E writeOk \in WriteOutcomes, id \in IdsOf(groups), in \in BoundInputs(currentSection) :
    \E index \in 0 .. (Len(groups[IndexOf(groups, id)].rules) - 1) :
      LET res == updateRule(groups, idCounter, templates, id, index, in[1], in[2])
      IN  /\ Mutate(res, writeOk)
          /\ last' = Call(TRUE, res.ret)
          /\ UNCHANGED <<currentSection, validationIssues, importVars, probe>>

\* updateGroupTitle(groupId, newTitle) for an existing group; probe remembers the call
CallSetTitle ==
  \E writeOk \in WriteOutcomes, id \in IdsOf(groups), title \in FreeTitles :
    LET res == updateGroupTitle(groups, idCounter, templates, id, title)
    IN  /\ groups' = res.groups
        /\ config' = updateConfigFromGroups(config, res.groups)
        /\ storage' = saveConfig(config', saveConfig(config', storage, writeOk), writeOk)
        /\ writeFailures' = Failed(writeOk)
        /\ last' = Call(TRUE, res.ret)
        /\ probe' = [groupId |-> id, newTitle |-> title]
        /\ UNCHANGED <<idCounter, templates, assigned, currentSection, validationIssues, importVars>>

InitFreeTitle == \E section \in SectionTypes : InitWith(Null, section, <<>>)

NextFreeTitle ==
  \/ CallAddGroup
  \/ CallUpdateRuleBound
  \/ CallSetTitle

SpecFreeTitle == InitFreeTitle /\ [][NextFreeTitle]_vars

\* ------------------------------------------------------------- page reload
\* the number of reloads in a run
MaxReloads == 1

\* a reload of the page: a new ConfigManager reads the stored item and rebuilds the groups
\* from it; the templates of the session and the record of the last call are gone
Reload ==
  /\ storage # Null
  /\ probe.reloads < MaxReloads
  /\ \E s \in {initializeConfig(storage)} :
       /\ config' = s.config
       /\ groups' = s.groups
       /\ idCounter' = s.idCounter
       /\ assigned' = IdsOf(s.groups)
  /\ templates' = Templates
  /\ writeFailures' = 0
  /\ last' = NoCall
  /\ probe' = [reloads |-> probe.reloads + 1]
  /\ UNCHANGED <<storage, currentSection, validationIssues, importVars>>

InitReload == \E section \in SectionTypes : InitWith(Null, section, [reloads |-> 0])

NextReload ==
  \/ CallAddGroup
  \/ CallUpdateGroupCommonParam
  \/ CallUpdateRuleBound
  \/ CallDeleteGroup
  \/ Reload

SpecReload == InitReload /\ [][NextReload]_vars

\* --------------------------------------------------------------------- claims
\* C3: a call of cloneGroup, deleteGroup, updateGroupCommonParam, addRule, updateRule,
\* deleteRule or updateGroupTitle whose group id does not exist, and a call of updateRule or
\* deleteRule whose rule index does not exist, returns false or null and leaves the groups,
\* the config, the id counter and the stored blob as they were.
C3_MissingTargetChangesNothing ==
  [][~last'.existed => (last'.ret \in {Bool(FALSE), Null} /\ UNCHANGED storeVars)]_vars

\* a call missed its target while there were groups and a stored blob to damage
C3_Witness == ~last.existed /\ last.ret = Bool(FALSE) /\ groups # <<>> /\ storage # Null

\* C5: after a mutator that found its target, config.pdt is what the groups project to; the
\* stored blob is the serialised config when the write went through, and the blob of before
\* when it did not.
C5_WriteThrough ==
  [][last'.existed =>
       /\ config'.pdt = toConfig(groups')
       /\ IF writeFailures' = 0 THEN storage' = stringify(config') ELSE storage' = storage]_vars

\* two groups are in the index, the projection holds both, and the blob is up to date
C5_Witness ==
  /\ last.existed
  /\ Len(groups) = 2
  /\ Len(config.pdt) > 0
  /\ writeFailures = 0
  /\ storage = stringify(config)


\* C1: the config and the groups are replaced only by finalizeImport, and only for the
\* document whose diff the user confirmed and whose summary is on screen; closing or
\* cancelling either dialog leaves the config and the groups as they were.
C1_OnlyTheConfirmedDocumentIsImported ==
  [][/\ event' \in {"finalizeImport", "finalizeImportThrew"} => tempFile = summaryModal
     /\ event' \in {"closeDiff", "cancelDiff", "escape", "closeSummary", "cancelSummary"}
          => UNCHANGED <<config, groups>>
     /\ <<config, groups>>' # <<config, groups>>
          => event' \in {"finalizeImport", "finalizeImportThrew"}]_vars

\* C2: an import that fails, at the read, at the parse, at the validation or at the rebuild
\* of the groups, leaves the config, the groups, the id counter and the stored blob as they
\* were.
C2_FailedImportChangesNothing ==
  [][event' \in {"readFailed", "rejected", "finalizeImportThrew"}
       => UNCHANGED <<config, groups, idCounter, storage>>]_vars

PdtPair(rule) == <<Get(rule, "pdtGreaterThan"), Get(rule, "pdtLessThanOrEqualTo")>>

\* C9: a ranges group built by the rebuild holds rules of one PDT bound pair only, and the
\* document with the entries (none, 13], (13, 18] and (18, 23] gives three ranges groups.
C9_RangesGroupedByPdtBounds ==
  /\ \A i \in 1 .. Len(groups) :
       groups[i].type = "ranges" =>
         \A j, k \in 1 .. Len(groups[i].rules) : PdtPair(groups[i].rules[j]) = PdtPair(groups[i].rules[k])
  /\ event = "finalizeImport" /\ tempFile = ThreeRangesFile => Len(GroupsOfType(groups, "ranges")) = 3


\* C4: the id counter never goes down, and a group that enters the index gets an id that
\* no group had before.
C4_IdsAreNeverReused ==
  [][/\ idCounter' >= idCounter
     /\ (IdsOf(groups') \ IdsOf(groups)) \cap assigned = {}]_vars

\* C6: after every operation that changes the groups, the stored issues are the issues of
\* the groups as they are now.
C6_IssuesFollowEveryChange ==
  [][groups' # groups => validationIssues' = validateConfiguration(groups')]_vars


\* the integers x with greaterThan < x <= lessThanOrEqualTo, among enough integers to tell
\* every two intervals over the bounds apart; an absent bound does not restrict x
Interval(greaterThan, lessThanOrEqualTo) ==
  {x \in (0 - 1) .. (MaxBound + MaxDelay + 1) :
     /\ IsSet(greaterThan) => NumOf(greaterThan) < x
     /\ IsSet(lessThanOrEqualTo) => x <= NumOf(lessThanOrEqualTo)}

PdtInterval(rule) == Interval(rule.pdtGreaterThan, rule.pdtLessThanOrEqualTo)
MeanDelayInterval(rule) == Interval(rule.meanDelayGreaterThan, rule.meanDelayLessThanOrEqualTo)
HasMeanDelay(rule) == IsSet(rule.meanDelayGreaterThan) \/ IsSet(rule.meanDelayLessThanOrEqualTo)

\* C7: doRangesRulesOverlap is true exactly when the PDT intervals (greaterThan,
\* lessThanOrEqualTo] of the two rules intersect and either one rule has no mean-delay
\* bound or the mean-delay intervals intersect.
C7_OverlapIsHalfOpenIntersection ==
  "overlap" \in DOMAIN probe =>
    (probe.overlap <=>
       /\ PdtInterval(probe.rule1) \cap PdtInterval(probe.rule2) # {}
       /\ \/ ~HasMeanDelay(probe.rule1)
          \/ ~HasMeanDelay(probe.rule2)
          \/ MeanDelayInterval(probe.rule1) \cap MeanDelayInterval(probe.rule2) # {})

Touch(lessThanOrEqualTo, greaterThan) ==
  IsSet(lessThanOrEqualTo) /\ IsSet(greaterThan) /\ lessThanOrEqualTo = greaterThan

Adjacent(a, b) ==
  \/ Touch(a.pdtLessThanOrEqualTo, b.pdtGreaterThan)
  \/ Touch(b.pdtLessThanOrEqualTo, a.pdtGreaterThan)
  \/ Touch(a.meanDelayLessThanOrEqualTo, b.meanDelayGreaterThan)
  \/ Touch(b.meanDelayLessThanOrEqualTo, a.meanDelayGreaterThan)

\* C8: two rules of one ranges group that meet at an exact boundary, in PDT or in mean
\* delay, do not overlap, and validation records no overlappingRules issue for them.
C8_AdjacentRulesDoNotOverlap ==
  "overlap" \in DOMAIN probe /\ Adjacent(probe.rule1, probe.rule2)
    => ~probe.overlap /\ probe.issues = <<>>

\* the rules (0, 2] and (2, none) were checked and found not to overlap
C8_Witness ==
  /\ "overlap" \in DOMAIN probe
  /\ probe.rule1.pdtGreaterThan = Num(0)
  /\ probe.rule1.pdtLessThanOrEqualTo = Num(2)
  /\ probe.rule2.pdtGreaterThan = Num(2)
  /\ probe.rule2.pdtLessThanOrEqualTo = Null
  /\ ~probe.overlap

Reported(issues, id1, id2) ==
  \E k \in 1 .. Len(issues) : issues[k].group1 = id1 /\ issues[k].group2 = id2

\* C10: validation records a duplicateGroups issue naming two groups of the types ranges,
\* capping and rounding exactly when they are of one type and their common parameters
\* are the same keys with the same values.
C10_DuplicatesAreEqualParams ==
  "issues" \in DOMAIN probe /\ "group1" \in DOMAIN probe =>
    (Reported(probe.issues, probe.group1.id, probe.group2.id) <=>
       /\ probe.group1.type = probe.group2.type
       /\ probe.group1.commonParams = probe.group2.commonParams)

\* two capping groups with the same two parameters were validated and reported
C10_Witness ==
  /\ "issues" \in DOMAIN probe
  /\ "group1" \in DOMAIN probe
  /\ probe.group1.type = "capping"
  /\ probe.group2.type = "capping"
  /\ Cardinality(DOMAIN probe.group1.commonParams) = 2
  /\ Len(probe.issues) = 1

\* the two groups have a format value in common among their rules
ShareFormat(group1, group2) ==
  \E i \in 1 .. Len(group1.rules) : \E j \in 1 .. Len(group2.rules) :
    group1.rules[i].format = group2.rules[j].format

\* C11: validation records a duplicateGroups issue naming two display-format groups
\* exactly when their common parameters are identical and a format value occurs in
\* the rules of both; identical parameters without a common format give no issue.
C11_DisplayDuplicatesNeedSharedFormat ==
  "formatIssues" \in DOMAIN probe /\ Len(probe.formatGroups) = 2 =>
    (Reported(probe.formatIssues.duplicateGroups, probe.formatGroups[1].id, probe.formatGroups[2].id) <=>
       /\ probe.formatGroups[1].commonParams = probe.formatGroups[2].commonParams
       /\ ShareFormat(probe.formatGroups[1], probe.formatGroups[2]))

\* C12: every display-format group with more than one rule is named by a requiredFields
\* issue, whatever the number of display-format groups, and the configuration is then
\* not valid.
C12_TooManyFormatsAlwaysReported ==
  "formatIssues" \in DOMAIN probe =>
    \A i \in 1 .. Len(probe.formatGroups) :
      Len(probe.formatGroups[i].rules) > 1 =>
        /\ \E k \in 1 .. Len(probe.formatIssues.requiredFields) :
             probe.formatIssues.requiredFields[k].groupId = probe.formatGroups[i].id
        /\ ~isValid(probe.formatIssues)

\* the positions (from 1) of the rules of a capping group that are of the variant
VariantPositions(group, variant) ==
  {i \in 1 .. Len(group.rules) : Get(group.rules[i], "type") = Str(variant)}

\* the variants of the rules of a capping group, in order
VariantsOf(group) == [k \in 1 .. Len(group.rules) |-> Get(group.rules[k], "type")]

\* the overlappingRules issues that name the group
IssuesOf(issues, groupId) == SelectSeq(issues, LAMBDA issue : issue.groupId = groupId)

\* the issue lists exactly the rules (indices from 0) at the positions
ListsPositions(issue, positions) ==
  /\ Len(issue.ruleIndices) = Cardinality(positions)
  /\ {issue.ruleIndices[k] + 1 : k \in 1 .. Len(issue.ruleIndices)} = positions

\* C13: for every capping group validation records one overlappingRules issue listing the
\* indices of its single rules exactly when it has more than one single rule, one issue
\* listing the indices of its ranges rules exactly when it has more than one ranges rule,
\* and no other overlappingRules issue for the group.
C13_CappingCardinality ==
  "cappingIssues" \in DOMAIN probe =>
    \A i \in 1 .. Len(probe.cappingGroups) :
      LET group == probe.cappingGroups[i]
          mine == IssuesOf(probe.cappingIssues, group.id)
          singles == VariantPositions(group, "single")
          ranges == VariantPositions(group, "ranges")
          many == {v \in {"single", "ranges"} : Cardinality(VariantPositions(group, v)) > 1}
      IN  /\ Len(mine) = Cardinality(many)
          /\ "single" \in many => ListsPositions(mine[1], singles)
          /\ "ranges" \in many => ListsPositions(mine[Len(mine)], ranges)

\* a capping group with the rules single, ranges, single was validated and got one issue
\* that lists the rules 0 and 2, next to a group with one rule of each variant and no issue
C13_Witness ==
  /\ "cappingIssues" \in DOMAIN probe
  /\ VariantsOf(probe.cappingGroups[1]) = <<Str("single"), Str("ranges"), Str("single")>>
  /\ VariantsOf(probe.cappingGroups[2]) = <<Str("single"), Str("ranges")>>
  /\ Len(probe.cappingIssues) = 1
  /\ probe.cappingIssues[1].groupId = "capping-0"
  /\ probe.cappingIssues[1].ruleIndices = <<0, 2>>

\* the capping groups in which toConfig finds more than one rule of one variant and
\* writes only the first of them into the flat entry
DroppingGroups ==
  {groups[i].id : i \in {j \in 1 .. Len(groups) :
                           /\ groups[j].type = "capping"
                           /\ \E v \in {"single", "ranges"} : Cardinality(VariantPositions(groups[j], v)) > 1}}

\* C14: in every reachable state, each capping group that holds more than one rule of
\* one variant is named by an overlappingRules issue of the current issue list.
C14_DroppedCappingRuleIsFlagged ==
  \A id \in DroppingGroups : Len(IssuesOf(validationIssues.overlappingRules, id)) > 0

\* the entries of the one stored section
StoredEntries == probe.stored[1][CHOOSE kind \in DOMAIN probe.stored[1] : TRUE]

\* C15: a group that rebuildGroupsMapping builds from entries whose first one carries a
\* stored _title gets that title, in every section type and with or without conditions;
\* a derived title is used only when the first entry has no _title.
C15_StoredTitleWins ==
  "rebuilt" \in DOMAIN probe /\ TitleOf(StoredEntries[1]) # <<>> =>
    probe.rebuilt[1].title = TitleOf(StoredEntries[1])

\* the case of the grouping key an entry belongs to: (a) neither conditions nor
\* delivery_option, (b) delivery_option and no conditions object, (c) anything else
KeyCase(entry) ==
  IF "conditions" \notin DOMAIN entry /\ "delivery_option" \notin DOMAIN entry THEN "a"
  ELSE IF "conditions" \notin DOMAIN entry THEN "b"
  ELSE "c"

\* C16: entries of different cases never get the same grouping key; the key
\* 'conditions:none' is given only to entries with neither conditions nor delivery_option;
\* entries with different delivery_option values never get the same key.
C16_KeyCasesAreDisjoint ==
  "key1" \in DOMAIN probe =>
    /\ KeyCase(probe.entry1) # KeyCase(probe.entry2) => probe.key1 # probe.key2
    /\ probe.key1 = "conditions:none" => KeyCase(probe.entry1) = "a"
    /\ (/\ "delivery_option" \in DOMAIN probe.entry1
        /\ "delivery_option" \in DOMAIN probe.entry2
        /\ probe.entry1.delivery_option # probe.entry2.delivery_option) => probe.key1 # probe.key2

C20_ImportAndStoreGroupAlike ==
  "key1" \in DOMAIN probe /\ "bucket1" \in DOMAIN probe =>
    (probe.bucket1 = probe.bucket2 <=> probe.key1 = probe.key2)

\* C19: mergePdtSectionsByCommonParams applied to its own output returns the same
\* sections: the same entries in the same order with the same titles.
C19_MergeIsIdempotent ==
  "once" \in DOMAIN probe => probe.twice = probe.once

\* three ranges sections (no PDT bounds, PDT 13-18, no PDT bounds) were merged into one
\* section in which the two unbounded entries come first and every entry has a title,
\* and the second merge returned the same
C19_Witness ==
  /\ "once" \in DOMAIN probe
  /\ probe.sections = <<SectionPool[5], SectionPool[6], SectionPool[5]>>
  /\ Len(probe.once) = 1
  /\ [i \in 1 .. 3 |-> probe.once[1].ranges[i]._title]
       = <<<<"Ranges ", "Default", " ", "1">>, <<"Ranges ", "Default", " ", "2">>,
           <<"Ranges ", "PDT ", "13", "-", "18">>>>
  /\ probe.twice = probe.once

\* C18: in every state reached through the ConfigManager operations, loading the text that
\* generateYaml writes for the config gives, for each section kind, the same multiset of
\* logical entries (the entry without its _title) as the config itself.
C18_YamlRoundTrip ==
  \A kind \in ConfigKinds :
    SameMultiset(LogicalEntries(parseYaml(generateYaml(config)), kind), LogicalEntries(config.pdt, kind))

\* the pdt of the parsed document is a list with an element that has a section key
HasRecognizableSection(parsed) ==
  /\ parsed # <<>>
  /\ PdtIsArray(parsed[1])
  /\ \E i \in 1 .. Len(parsed[1].pdt[2]) : IsSectionObject(parsed[1].pdt[2][i])

\* C21: the import gate rejects a document exactly when it is empty, its pdt is missing or
\* not a list, or no element of pdt has a section key; a document with a recognizable
\* section is accepted whatever metadata it lacks, and the accepted document gets the
\* defaults for the metadata it lacks.
C21_GateRejectsOnlyUnusableDocuments ==
  "gate" \in DOMAIN probe =>
    /\ probe.gate.valid <=> HasRecognizableSection(probe.parsed)
    /\ probe.gate.valid =>
         \A k \in {"configFormatVersion", "variant", "platform", "countryCode"} : k \in DOMAIN probe.temp[1]

\* the conditions of every entry of a pdt list hold a boolean marketplace and a list of
\* vertical types, when they hold them at all
ConditionsAreNormal(pdt) ==
  \A s \in 1 .. Len(pdt) : \A kind \in (DOMAIN pdt[s]) \cap ConfigKinds :
    \A i \in 1 .. Len(pdt[s][kind]) :
      LET c == CondOf(pdt[s][kind][i])
      IN  /\ "marketplace" \in DOMAIN c => c.marketplace[1] = "bool"
          /\ "vertical_types" \in DOMAIN c => c.vertical_types[1] = "arr"

MetadataIsDefined(cfg) ==
  \A k \in {"configFormatVersion", "variant", "platform", "countryCode"} :
    k \in DOMAIN cfg /\ cfg[k] # Undefined

\* C22: the config that normalizeConfig makes of a document that passed the gate has all
\* four metadata fields defined (a missing format version is "1", a missing country code
\* is ""), and in the conditions of each of its entries marketplace is a boolean and
\* vertical_types is a list.
C22_NormalizedConfigIsNormalForm ==
  ("gate" \in DOMAIN probe /\ probe.gate.valid) =>
    /\ MetadataIsDefined(probe.temp[1])
    /\ "config_format_version" \notin DOMAIN probe.parsed[1] => probe.temp[1].configFormatVersion = Str("1")
    /\ "country_code" \notin DOMAIN probe.parsed[1] => probe.temp[1].countryCode = Str("")
    /\ ConditionsAreNormal(probe.temp[1].pdt)

\* the stored blob is a JSON object with a pdt list from which the groups can be rebuilt
IsUsableBlob(blob) ==
  /\ blob[1] = "json"
  /\ "pdt" \in DOMAIN blob[2]
  /\ ~rebuildGroupsMapping(blob[2].pdt).threw

\* C23: when the stored blob is not a usable config (not JSON, JSON null, an object without
\* a pdt list, or entries that make the rebuild fail), the ConfigManager ends its start with
\* the default config, no groups and the id counter at 0.
C23_BadStoredStateFallsBackToDefault ==
  (probe.started /\ storage # Null /\ ~IsUsableBlob(storage)) =>
    (config = DefaultConfig /\ groups = <<>> /\ idCounter = 0)

\* the step from the unprimed to the primed state is the call whose result is res
IsCall(res) ==
  res.found /\ groups' = res.groups /\ idCounter' = res.idCounter /\ templates' = res.templates

\* the same call made again in the primed state, with result again, changes neither the
\* groups nor config.pdt
ChangesNothing(again) == again.groups = groups' /\ toConfig(again.groups) = config'.pdt

DeleteGroupTwice ==
  \A id \in Targets :
    IsCall(deleteGroup(groups, idCounter, templates, currentSection, id))
      => ChangesNothing(deleteGroup(groups', idCounter', templates', currentSection, id))

UpdateGroupCommonParamTwice ==
  \A id \in Targets, in \in ParamInputs(currentSection) :
    IsCall(updateGroupCommonParam(groups, idCounter, templates, id, in[1], in[2]))
      => ChangesNothing(updateGroupCommonParam(groups', idCounter', templates', id, in[1], in[2]))

UpdateRuleTwice ==
  \A id \in Targets, in \in RuleInputs(currentSection) : \A index \in Indices(id) :
    IsCall(updateRule(groups, idCounter, templates, id, index, in[1], in[2]))
      => ChangesNothing(updateRule(groups', idCounter', templates', id, index, in[1], in[2]))

UpdateGroupTitleTwice ==
  \A id \in Targets, title \in TitleInputs :
    IsCall(updateGroupTitle(groups, idCounter, templates, id, title))
      => ChangesNothing(updateGroupTitle(groups', idCounter', templates', id, title))

AddRuleTwice ==
  \A id \in Targets :
    IsCall(addRule(groups, idCounter, templates, id, Null))
      => ChangesNothing(addRule(groups', idCounter', templates', id, Null))

DeleteRuleTwice ==
  \A id \in Targets : \A index \in Indices(id) :
    IsCall(deleteRule(groups, idCounter, templates, id, index))
      => ChangesNothing(deleteRule(groups', idCounter', templates', id, index))

\* C24: a call of deleteGroup, updateGroupCommonParam, addRule, updateRule, deleteRule or
\* updateGroupTitle that is repeated with the same arguments right after it was made
\* changes neither the groups nor config.pdt.
C24_MutatorsAreIdempotent ==
  [][/\ DeleteGroupTwice /\ UpdateGroupCommonParamTwice /\ UpdateRuleTwice
     /\ UpdateGroupTitleTwice /\ AddRuleTwice /\ DeleteRuleTwice]_vars

\* C24 as amended: the same for deleteGroup, updateGroupCommonParam, updateRule and
\* updateGroupTitle, the mutators that set a value or remove a key.
C24_SettersAreIdempotent ==
  [][DeleteGroupTwice /\ UpdateGroupCommonParamTwice /\ UpdateRuleTwice /\ UpdateGroupTitleTwice]_vars

\* a state right after updateRule wrote a value into a rule and returned true, in which
\* the same call again leaves the groups as they are
C24_Witness ==
  /\ last = Call(TRUE, Bool(TRUE))
  /\ \E id \in IdsOf(groups), in \in RuleInputs(currentSection) :
       /\ Len(groups[IndexOf(groups, id)].rules) > 0
       /\ groups[IndexOf(groups, id)].type = currentSection
       /\ Get(groups[IndexOf(groups, id)].rules[1], in[1]) = in[2]
       /\ updateRule(groups, idCounter, templates, id, 0, in[1], in[2]).groups = groups

\* what a group holds besides its id and type
ContentOf(gs, id) ==
  [title |-> gs[IndexOf(gs, id)].title, commonParams |-> gs[IndexOf(gs, id)].commonParams,
   rules |-> gs[IndexOf(gs, id)].rules]

\* the groups that exist before and after the step and whose content the step changed
ChangedGroups ==
  {id \in IdsOf(groups) \cap IdsOf(groups') : ContentOf(groups', id) # ContentOf(groups, id)}

\* C25: a step changes the title, commonParams or rules of at most one group, the group
\* the handler was called for; a step that creates or deletes a group changes no other
\* group; and no step changes a template definition. This holds for clones and their
\* sources and for groups made from the same template.
C25_GroupsAreIndependent ==
  [][/\ Cardinality(ChangedGroups) <= 1
     /\ IdsOf(groups') # IdsOf(groups) => ChangedGroups = {}
     /\ templates' = templates]_vars

\* the rule has exactly the fields of the variant that its type names
HasShapeOfType(rule) ==
  \/ Get(rule, "type") = Str("single") /\ DOMAIN rule = {"type", "min", "max"}
  \/ Get(rule, "type") = Str("ranges")
       /\ DOMAIN rule = {"type", "minLowerBound", "minUpperBound", "maxLowerBound", "maxUpperBound"}

CappingRulesHaveShape ==
  \A i \in 1 .. Len(groups) : groups[i].type = "capping" =>
    \A k \in 1 .. Len(groups[i].rules) : HasShapeOfType(groups[i].rules[k])

\* a step that changes the type of an existing capping rule leaves the defaults of the
\* new variant in its place
TypeChangeResets ==
  \A id \in Targets, value \in CappingTypes : \A index \in Indices(id) :
    (ExistsRule(id, index) /\ IsCall(updateRule(groups, idCounter, templates, id, index, "type", value)))
      => groups'[IndexOf(groups', id)].rules[index + 1]
           = (IF value = Str("single") THEN DefaultSingleRule ELSE DefaultCappingRangesRule)

\* the step is a call of updateRule that names a number field which the variant of the
\* rule does not have
WritesForeignField ==
  \E id \in IdsOf(groups), field \in CappingNumberFields :
    \E index \in 0 .. (Len(groups[IndexOf(groups, id)].rules) - 1) :
      /\ field \notin DOMAIN groups[IndexOf(groups, id)].rules[index + 1]
      /\ IsCall(updateRule(groups, idCounter, templates, id, index, field, Num(7)))

RuleSortKey(rule) ==
  <<IF IsSet(rule.pdtGreaterThan) THEN rule.pdtGreaterThan[2] ELSE -1000000,
    IF IsSet(rule.pdtLessThanOrEqualTo) THEN rule.pdtLessThanOrEqualTo[2] ELSE 1000000,
    IF IsSet(rule.meanDelayGreaterThan) THEN rule.meanDelayGreaterThan[2] ELSE -1000000,
    IF IsSet(rule.meanDelayLessThanOrEqualTo) THEN rule.meanDelayLessThanOrEqualTo[2] ELSE 1000000,
    rule.lowerBound[2], rule.upperBound[2]>>

\* k1 is not after k2 in the lexicographic order
RECURSIVE LexLeq(_, _)
LexLeq(k1, k2) ==
  IF k1 = <<>> THEN TRUE
  ELSE IF Head(k1) # Head(k2) THEN Head(k1) < Head(k2)
  ELSE LexLeq(Tail(k1), Tail(k2))

\* C27: after rebuildGroupsMapping the rules of every ranges group are in ascending
\* lexicographic order of (pdtGreaterThan, pdtLessThanOrEqualTo, meanDelayGreaterThan,
\* meanDelayLessThanOrEqualTo, lowerBound, upperBound), an absent bound counting as
\* -infinity or +infinity, whatever the order of the stored entries and also for bounds 0.
C27_RangesRulesAreSorted ==
  "rebuilt" \in DOMAIN probe =>
    \A g \in 1 .. Len(probe.rebuilt) : \A k \in 1 .. (Len(probe.rebuilt[g].rules) - 1) :
      LexLeq(RuleSortKey(probe.rebuilt[g].rules[k]), RuleSortKey(probe.rebuilt[g].rules[k + 1]))

\* C28: for each section kind, an entry on the original side or on the merged side of the
\* diff is classified unmatched exactly when no entry of that kind on the other side is
\* equal to it field for field, the presence of condition keys included; so when both
\* sides hold the same entries, duplicates included, no entry is unmatched.
C28_UnmatchedMeansNoEqualEntry ==
  "maps" \in DOMAIN probe =>
    \A kind \in ConfigKinds :
      LET original == probe.originalEntries[kind]
          merged == probe.mergedEntries[kind]
      IN  /\ \A i \in 1 .. Len(original) :
               (probe.maps[kind].original[i] = "unmatched")
                 <=> ~\E j \in 1 .. Len(merged) : merged[j] = original[i]
          /\ \A j \in 1 .. Len(merged) :
               (probe.maps[kind].interpreted[j] = "unmatched")
                 <=> ~\E i \in 1 .. Len(original) : original[i] = merged[j]

\* the state after updateGroupTitle(probe.groupId, probe.newTitle): the call returned
\* true, the group has that title, and so has every flat entry made from the group
TitleIsTheInput ==
  \E g \in {groups[IndexOf(groups, probe.groupId)]} : \E pdt \in {toConfig(<<g>>)} :
    /\ last.ret = Bool(TRUE)
    /\ g.title = probe.newTitle
    /\ \A s \in 1 .. Len(pdt) : \A kind \in DOMAIN pdt[s] : \A i \in 1 .. Len(pdt[s][kind]) :
         pdt[s][kind][i]._title = probe.newTitle

\* C29: a group's title is free text: for every existing group of any section type and
\* every non-empty string t, updateGroupTitle(id, t) returns true and leaves the group's
\* title equal to t, and the flat entries of that group then carry _title equal to t.
C29_TitleIsFreeText == [][CallSetTitle => TitleIsTheInput']_vars

\* the groups flatten to the entries of the persisted config: per kind the same entries,
\* each as often, titles aside
FlattensToStored ==
  \A kind \in ConfigKinds :
    SameMultiset(LogicalEntries(toConfig(groups), kind), LogicalEntries(storage[2].pdt, kind))

\* C30: reloading does not change the configuration: rebuilding the groups from the
\* persisted config and flattening them again gives the same multiset of flat entries; no
\* entry is dropped or added, no bound equal to 0 is lost, no condition is added or
\* changed, and no entry changes its delivery_option.
C30_ReloadKeepsEntries == [][Reload => FlattensToStored']_vars

====
